---- MODULE Spec2Model ----
(***************************************************************************)
(* A model of the IPTV proxy's guide engine (internal/epg): the name       *)
(* normalizer, the three-pass channel matcher, Filter / FilterForMerge,    *)
(* the placeholder synthesizer and the multi-source merger.                *)
(*                                                                         *)
(* Go strings are modelled as sequences of one-character strings, so that  *)
(* prefix stripping, suffix removal, "%s-%d" formatting and the numeric-   *)
(* suffix test are computed as the code computes them.                     *)
(***************************************************************************)
EXTENDS Integers, Sequences, FiniteSets, TLC

(***************************************************************************)
(* strings / strconv / fmt helpers                                         *)
(***************************************************************************)
Lowers == <<"a","b","c","d","e","f","g","h","i","j","k","l","m","n","o","p","q","r","s","t","u","v","w","x","y","z">>
Uppers == <<"A","B","C","D","E","F","G","H","I","J","K","L","M","N","O","P","Q","R","S","T","U","V","W","X","Y","Z">>
Digits == <<"0","1","2","3","4","5","6","7","8","9">>

\* A Go string is a sequence of bytes.  The alphabet of the model holds ASCII
\* characters, one byte each, and the dotless i (U+0131), two bytes, whose upper
\* case is the one-byte "I".  Bytes that are no valid UTF-8 are mapped by
\* strings.ToUpper and strings.ToLower to U+FFFD, three bytes.
DotlessI    == <<"xC4", "xB1">>
RuneError   == <<"xEF", "xBF", "xBD">>
NonASCII    == {"xC4", "xB1"}

\* unicode.ToUpper / ToLower on one ASCII character.
ToUpperChar(c) ==
  IF \E i \in 1..26 : Lowers[i] = c
    THEN Uppers[CHOOSE i \in 1..26 : Lowers[i] = c]
    ELSE c

ToLowerChar(c) ==
  IF \E i \in 1..26 : Uppers[i] = c
    THEN Lowers[CHOOSE i \in 1..26 : Uppers[i] = c]
    ELSE c

\* The string starts with the bytes of the rune.
HeadIs(str, rune) == Len(str) >= Len(rune) /\ SubSeq(str, 1, Len(rune)) = rune

RECURSIVE ToUpper(_)
ToUpper(str) ==
  IF str = <<>> THEN <<>>
  ELSE IF HeadIs(str, DotlessI) THEN <<"I">> \o ToUpper(Tail(Tail(str)))
  ELSE IF Head(str) \in NonASCII THEN RuneError \o ToUpper(Tail(str))
  ELSE <<ToUpperChar(Head(str))>> \o ToUpper(Tail(str))

RECURSIVE ToLower(_)
ToLower(str) ==
  IF str = <<>> THEN <<>>
  ELSE IF HeadIs(str, DotlessI) THEN DotlessI \o ToLower(Tail(Tail(str)))
  ELSE IF Head(str) \in NonASCII THEN RuneError \o ToLower(Tail(str))
  ELSE <<ToLowerChar(Head(str))>> \o ToLower(Tail(str))

HasPrefix(str, prefix) ==
  /\ Len(prefix) <= Len(str)
  /\ SubSeq(str, 1, Len(prefix)) = prefix

\* strings.Index, 1-based; 0 when substr does not occur (Go: -1).
Index(str, substr) ==
  LET hits == { i \in 1..(Len(str) - Len(substr) + 1) :
                  SubSeq(str, i, i + Len(substr) - 1) = substr }
  IN  IF hits = {} THEN 0 ELSE CHOOSE i \in hits : \A j \in hits : i <= j

Contains(str, substr) == Index(str, substr) # 0

\* strings.LastIndex for a one-character separator, 1-based; 0 when absent.
LastIndex(str, c) ==
  LET hits == { i \in 1..Len(str) : str[i] = c }
  IN  IF hits = {} THEN 0 ELSE CHOOSE i \in hits : \A j \in hits : i >= j

\* strings.Fields followed by strings.Join(.., " "): runs of spaces collapse
\* to one space and leading and trailing spaces disappear.
RECURSIVE Fields(_)
Fields(str) ==
  IF str = <<>> THEN <<>>
  ELSE IF Head(str) = " " THEN Fields(Tail(str))
  ELSE LET rest == Tail(str)
       IN  IF rest = <<>> THEN <<Head(str)>>
           ELSE IF Head(rest) = " "
             THEN LET more == Fields(rest)
                  IN  IF more = <<>> THEN <<Head(str)>>
                      ELSE <<Head(str), " ">> \o more
             ELSE <<Head(str)>> \o Fields(rest)

\* strconv.Itoa of a natural number (the %d of fmt.Sprintf).
RECURSIVE Itoa(_)
Itoa(n) ==
  IF n < 10 THEN <<Digits[n + 1]>>
  ELSE Itoa(n \div 10) \o <<Digits[(n % 10) + 1]>>

IsDigit(c) == \E i \in 1..10 : Digits[i] = c

(***************************************************************************)
(* internal/epg/filter.go: lookup tables                                   *)
(***************************************************************************)
countryPrefixes ==
  << <<"U","S","A"," "," ">>,
     <<"W","o","r","l","d"," "," ">>,
     <<"A","U","S"," "," ">>,
     <<"U","S",":">>,
     <<"A","U",":">>,
     <<"A","U","S",":">>,
     <<"U","K",":">>,
     <<"P","H",":">>,
     <<"B","R",":">>,
     <<"C","A",":">>,
     <<"N","Z",":">>,
     <<"M","X",":">>,
     <<"I","D",":">>,
     <<"U","S","A"," ">>,
     <<"U","K"," ">>,
     <<"P","H"," ">>,
     <<"B","R"," ">>,
     <<"I","D"," ">>,
     <<"M","Y"," ">>,
     <<"M","X"," ">>,
     <<"A","U","S"," ">>,
     <<"C","a","r","i","b"," ">>,
     <<"W","o","r","l","d"," ">>,
     <<"L","a","t","i","n"," ">>,
     <<"U","S"," ">> >>

regionPrefixes ==
  { <<<<"U","S",":">>, "us">>,
    <<<<"U","S","A"," ">>, "us">>,
    <<<<"U","S","A"," "," ">>, "us">>,
    <<<<"U","S"," ">>, "us">>,
    <<<<"A","U",":">>, "au">>,
    <<<<"A","U","S",":">>, "au">>,
    <<<<"A","U","S"," ">>, "au">>,
    <<<<"A","U","S"," "," ">>, "au">>,
    <<<<"U","K",":">>, "uk">>,
    <<<<"U","K"," ">>, "uk">>,
    <<<<"P","H",":">>, "ph">>,
    <<<<"P","H"," ">>, "ph">>,
    <<<<"B","R",":">>, "br">>,
    <<<<"B","R"," ">>, "br">>,
    <<<<"C","A",":">>, "ca">>,
    <<<<"N","Z",":">>, "nz">>,
    <<<<"M","X",":">>, "mx">>,
    <<<<"M","X"," ">>, "mx">>,
    <<<<"I","D",":">>, "id">>,
    <<<<"I","D"," ">>, "id">>,
    <<<<"M","Y"," ">>, "my">>,
    <<<<"C","a","r","i","b"," ">>, "carib">>,
    <<<<"W","o","r","l","d"," ">>, "world">>,
    <<<<"W","o","r","l","d"," "," ">>, "world">>,
    <<<<"L","a","t","i","n"," ">>, "latin">> }

qualitySuffixes ==
  << <<"(","H","D",")">>,
     <<"(","F","H","D",")">>,
     <<"(","S","D",")">>,
     <<"(","4","K",")">>,
     <<"(","U","H","D",")">>,
     <<"(","S",")">>,
     <<"(","A",")">>,
     <<"(","H",")">>,
     <<"(","D",")">>,
     <<"(","C",")">>,
     <<"(","P",")">>,
     <<"(","F","L",")">>,
     <<"(","F",")">>,
     <<"(","E",")">>,
     <<"(","R",")">>,
     <<"(","N","o","r","t","h"," ","A","m","e","r","i","c","a",")">>,
     <<"(","E","M","E","A",")">>,
     <<"(","P","R","I","M","E",")">>,
     <<"(","T","U","B","I",")">>,
     <<" ","F","H","D">>,
     <<" ","H","D">> >>

(***************************************************************************)
(* Name normalizer                                                         *)
(***************************************************************************)
\* The region codes of every table prefix the name starts with.  The Go code
\* ranges over the map and returns at the first hit, in map order.
RegionsOf(name) ==
  { e[2] : e \in { p \in regionPrefixes : HasPrefix(ToUpper(name), ToUpper(p[1])) } }

extractRegion(name) ==
  IF RegionsOf(name) = {} THEN "" ELSE CHOOSE r \in RegionsOf(name) : TRUE

\* The offsets are taken in the upper-cased copy and applied to the string
\* itself; a slice expression whose bound lies beyond the string panics.
Panic == <<"panic: slice bounds out of range">>

\* The prefix loop: every prefix of the ordered list is tried, in order, on
\* what the earlier ones left (the loop has no break).  An empty string has no
\* prefix of the list, so the remaining iterations leave it as it is.
RECURSIVE StripPrefixes(_, _)
StripPrefixes(str, k) ==
  IF k > Len(countryPrefixes) \/ str = <<>> \/ str = Panic THEN str
  ELSE IF HasPrefix(ToUpper(str), ToUpper(countryPrefixes[k]))
    THEN IF Len(countryPrefixes[k]) > Len(str) THEN Panic
         ELSE StripPrefixes(SubSeq(str, Len(countryPrefixes[k]) + 1, Len(str)), k + 1)
    ELSE StripPrefixes(str, k + 1)

\* The inner loop for one suffix: remove its first occurrence until none is left.
RECURSIVE StripSuffix(_, _)
StripSuffix(str, suffix) ==
  IF str = Panic THEN Panic
  ELSE LET idx == Index(ToUpper(str), ToUpper(suffix))
       IN  IF idx = 0 THEN str
           ELSE IF idx - 1 + Len(suffix) > Len(str) THEN Panic
           ELSE StripSuffix(SubSeq(str, 1, idx - 1)
                              \o SubSeq(str, idx + Len(suffix), Len(str)), suffix)

\* The suffix loop, one suffix of the list after the other (an empty string
\* contains none of them).
RECURSIVE StripSuffixes(_, _)
StripSuffixes(str, k) ==
  IF k > Len(qualitySuffixes) \/ str = <<>> \/ str = Panic THEN str
  ELSE StripSuffixes(StripSuffix(str, qualitySuffixes[k]), k + 1)

normalizeChannelName(name) ==
  LET stripped == StripSuffixes(StripPrefixes(name, 1), 1)
  IN  IF stripped = Panic THEN Panic ELSE ToLower(Fields(stripped))

\* The display names of the model's inputs, with their normal forms and regions
\* computed once: Normalized and Region are normalizeChannelName and
\* extractRegion on these names.
NameUniverse ==
  { <<"F">>, <<"E">>, <<"U","S"," ","F">>, <<"U","S",":","F">>, <<"U","K",":","F">> }

NormalizedTable == { <<n, normalizeChannelName(n), extractRegion(n)>> : n \in NameUniverse }

Normalized(name) ==
  IF name \in NameUniverse
    THEN (CHOOSE e \in NormalizedTable : e[1] = name)[2]
    ELSE normalizeChannelName(name)

Region(name) ==
  IF name \in NameUniverse
    THEN (CHOOSE e \in NormalizedTable : e[1] = name)[3]
    ELSE extractRegion(name)

\* md5 hex digest of the display name: 32 hexadecimal characters.  Modelled as
\* an injective tagging of the name; the tag "#" occurs in no guide identifier
\* and the result holds no "-" (names of the model hold none).
generateChannelID(displayName) == <<"#">> \o displayName

\* strconv.Atoi succeeds: an optional sign followed by digits only.
isNumericSuffix(str) ==
  /\ str # <<>>
  /\ LET body == IF Head(str) \in {"+", "-"} THEN Tail(str) ELSE str
     IN  /\ body # <<>>
         /\ \A i \in 1..Len(body) : IsDigit(body[i])


(***************************************************************************)
(* Inputs: playlist entries (m3u.Channel), guide channels (epg.Channel)     *)
(* and guide programmes (epg.Programme).  URL, TVGName and Original of a    *)
(* playlist entry are read by nothing modelled here and are left out.       *)
(***************************************************************************)
NameF   == <<"F">>
NameE   == <<"E">>
NameUSF == <<"U","S"," ","F">>
GuideUS == <<"U","S",":","F">>
GuideUK == <<"U","K",":","F">>
IdA     == <<"a">>
IdA2    == <<"a","-","2">>
NoStr   == <<>>

MaxM3U == 2
MaxEPG == 2
MaxProgs == 1
WideM3U == 3
WideEPG == 3

M3UUniverse ==
  { [Name |-> NameF,   TVGID |-> NoStr, TVGLogo |-> <<"l">>, Group |-> <<"g">>],
    [Name |-> NameF,   TVGID |-> IdA,   TVGLogo |-> NoStr,   Group |-> NoStr],
    [Name |-> NameF,   TVGID |-> IdA2,  TVGLogo |-> NoStr,   Group |-> NoStr],
    [Name |-> NameUSF, TVGID |-> NoStr, TVGLogo |-> NoStr,   Group |-> <<"g">>],
    [Name |-> NameE,   TVGID |-> NoStr, TVGLogo |-> <<"l">>, Group |-> NoStr],
    [Name |-> NoStr,   TVGID |-> IdA,   TVGLogo |-> NoStr,   Group |-> NoStr] }

EPGUniverse ==
  { [ID |-> IdA,   DisplayName |-> NameF,   Icon |-> <<"i">>],
    [ID |-> IdA,   DisplayName |-> GuideUS, Icon |-> <<"i">>],
    [ID |-> IdA2,  DisplayName |-> GuideUK, Icon |-> <<"i">>],
    [ID |-> NoStr, DisplayName |-> NameF,   Icon |-> <<"i">>],
    [ID |-> IdA,   DisplayName |-> NameE,   Icon |-> <<"i">>] }

ProgUniverse ==
  { [Channel |-> id, Start |-> <<"1">>, Stop |-> <<"2">>, Title |-> <<"t">>,
     Description |-> <<"d">>, Category |-> NoStr] : id \in {IdA, IdA2} }

SeqsUpTo(S, n) == UNION { [1..k -> S] : k \in 0..n }

\* Every enumeration of a finite set: the orders a Go range over a map may take.
Orders(S) == { o \in [1..Cardinality(S) -> S] : \A x \in S : \E i \in DOMAIN o : o[i] = x }

MapPut(f, k, v) == [x \in (DOMAIN f) \cup {k} |-> IF x = k THEN v ELSE f[x]]

EmptyMap == <<>>

Range(f) == { f[x] : x \in DOMAIN f }

LastIdx(S) == CHOOSE i \in S : \A j \in S : i >= j

FirstIdx(S) == CHOOSE i \in S : \A j \in S : i <= j

(***************************************************************************)
(* The lookup maps Filter and FilterForMerge build from the playlist        *)
(***************************************************************************)
\* map[string]bool: the set of non-empty playlist names.
buildChannelNameMap(m3u) ==
  { m3u[i].Name : i \in { j \in DOMAIN m3u : m3u[j].Name # NoStr } }

\* tvg-id -> name; a later entry with the same tvg-id overwrites an earlier one.
buildTVGIDMap(m3u) ==
  LET ok == { i \in DOMAIN m3u : m3u[i].TVGID # NoStr /\ m3u[i].Name # NoStr }
  IN  [ k \in { m3u[i].TVGID : i \in ok } |->
          m3u[LastIdx({ i \in ok : m3u[i].TVGID = k })].Name ]

\* name -> group-title; a later entry with the same name overwrites.
buildCategoryMap(m3u) ==
  LET ok == { i \in DOMAIN m3u : m3u[i].Name # NoStr /\ m3u[i].Group # NoStr }
  IN  [ n \in { m3u[i].Name : i \in ok } |->
          m3u[LastIdx({ i \in ok : m3u[i].Name = n })].Group ]

\* A variant of buildNormalizedNameMap that also takes the entries that have a
\* tvg-id.
buildNormalizedNameMapWithHinted(m3u) ==
  LET ok == { i \in DOMAIN m3u : m3u[i].Name # NoStr }
      firstOf(n) == FirstIdx({ i \in ok : Normalized(m3u[i].Name) = n })
  IN  [ k \in { Normalized(m3u[i].Name) : i \in ok } |->
          [ originalName   |-> m3u[firstOf(k)].Name,
            normalizedName |-> k,
            region         |-> Region(m3u[firstOf(k)].Name) ] ]

\* normalized name -> m3uNormalizedInfo of the first entry that has no tvg-id
\* and whose name is not also carried by an entry with a tvg-id.
buildNormalizedNameMap(m3u) ==
  LET namesWithTVGID ==
        { m3u[i].Name : i \in { j \in DOMAIN m3u :
                                  m3u[j].TVGID # NoStr /\ m3u[j].Name # NoStr } }
      ok == { i \in DOMAIN m3u : /\ m3u[i].TVGID = NoStr
                                 /\ m3u[i].Name \notin namesWithTVGID
                                 /\ m3u[i].Name # NoStr }
      firstOf(n) == FirstIdx({ i \in ok : Normalized(m3u[i].Name) = n })
  IN  [ k \in { Normalized(m3u[i].Name) : i \in ok } |->
          [ originalName   |-> m3u[firstOf(k)].Name,
            normalizedName |-> k,
            region         |-> Region(m3u[firstOf(k)].Name) ] ]

(***************************************************************************)
(* matcherState and the three passes                                        *)
(***************************************************************************)
\* The state after newMatcherState.  log holds the records addMatch writes at
\* Debug level (playlist name, original guide id, message), with the guide
\* index the match is about.
newMatcherState ==
  [ matchedChannels |-> <<>>,
    channelIDMap    |-> EmptyMap,
    matchedM3U      |-> {},
    matchedEPG      |-> {},
    idUsageCount    |-> EmptyMap,
    log             |-> <<>> ]

\* epgIDToCandidates[id]: the guide indices carrying id, in list order.
epgIDToCandidates(epg, id) == { i \in DOMAIN epg : epg[i].ID # NoStr /\ epg[i].ID = id }

\* A variant that numbers a repeated identifier by the uses so far.
addMatchCountSoFar(s, epg, epgIdx, m3uName, logMsg) ==
  LET originalID == IF epg[epgIdx].ID = NoStr
                      THEN generateChannelID(epg[epgIdx].DisplayName)
                      ELSE epg[epgIdx].ID
      exists == originalID \in DOMAIN s.idUsageCount
      count  == IF exists THEN s.idUsageCount[originalID] ELSE 0
      newID  == IF exists THEN originalID \o <<"-">> \o Itoa(count)
                          ELSE originalID
  IN  [ matchedChannels |-> Append(s.matchedChannels, [epg[epgIdx] EXCEPT !.ID = newID]),
        channelIDMap    |-> MapPut(s.channelIDMap, newID, m3uName),
        matchedM3U      |-> s.matchedM3U \cup {m3uName},
        matchedEPG      |-> s.matchedEPG \cup {epgIdx},
        idUsageCount    |-> MapPut(s.idUsageCount, originalID, count + 1),
        log             |-> Append(s.log, [m3uChannel |-> m3uName, epgID |-> originalID,
                                           epgIdx |-> epgIdx, msg |-> logMsg]) ]

addMatch(s, epg, epgIdx, m3uName, logMsg) ==
  LET originalID == IF epg[epgIdx].ID = NoStr
                      THEN generateChannelID(epg[epgIdx].DisplayName)
                      ELSE epg[epgIdx].ID
      exists == originalID \in DOMAIN s.idUsageCount
      count  == IF exists THEN s.idUsageCount[originalID] ELSE 0
      newID  == IF exists THEN originalID \o <<"-">> \o Itoa(count + 1)
                          ELSE originalID
  IN  [ matchedChannels |-> Append(s.matchedChannels, [epg[epgIdx] EXCEPT !.ID = newID]),
        channelIDMap    |-> MapPut(s.channelIDMap, newID, m3uName),
        matchedM3U      |-> s.matchedM3U \cup {m3uName},
        matchedEPG      |-> s.matchedEPG \cup {epgIdx},
        idUsageCount    |-> MapPut(s.idUsageCount, originalID, count + 1),
        log             |-> Append(s.log, [m3uChannel |-> m3uName, epgID |-> originalID,
                                           epgIdx |-> epgIdx, msg |-> logMsg]) ]

\* 0 stands for the code's -1 (no candidate).
findBestTVGIDCandidate(s, epg, candidates, m3uName) ==
  LET free    == candidates \ s.matchedEPG
      perfect == { i \in free : epg[i].DisplayName = m3uName }
  IN  IF perfect # {} THEN FirstIdx(perfect)
      ELSE IF free # {} THEN FirstIdx(free)
      ELSE 0

\* One iteration of the range loop of matchByTVGID, for the key tvgID.
matchByTVGIDIter(s, epg, tvgIDMap, tvgID) ==
  LET m3uName    == tvgIDMap[tvgID]
      candidates == epgIDToCandidates(epg, tvgID)
      bestIdx    == findBestTVGIDCandidate(s, epg, candidates, m3uName)
  IN  IF m3uName \in s.matchedM3U THEN s
      ELSE IF candidates = {} THEN s
      ELSE IF bestIdx > 0 THEN addMatch(s, epg, bestIdx, m3uName, "tvg-id")
      ELSE s

\* A variant that does not look whether the playlist name is matched already.
RECURSIVE matchByDisplayNameRematch(_, _, _, _)
matchByDisplayNameRematch(s, epg, channelNameMap, i) ==
  IF i > Len(epg) THEN s
  ELSE IF i \in s.matchedEPG THEN matchByDisplayNameRematch(s, epg, channelNameMap, i + 1)
  ELSE IF epg[i].DisplayName \notin channelNameMap
    THEN matchByDisplayNameRematch(s, epg, channelNameMap, i + 1)
  ELSE matchByDisplayNameRematch(addMatch(s, epg, i, epg[i].DisplayName, "display-name"),
                                 epg, channelNameMap, i + 1)

\* matchByDisplayName: the loop over the guide list, from index i on.
RECURSIVE matchByDisplayName(_, _, _, _)
matchByDisplayName(s, epg, channelNameMap, i) ==
  IF i > Len(epg) THEN s
  ELSE IF i \in s.matchedEPG THEN matchByDisplayName(s, epg, channelNameMap, i + 1)
  ELSE IF \/ epg[i].DisplayName \notin channelNameMap
          \/ epg[i].DisplayName \in s.matchedM3U
    THEN matchByDisplayName(s, epg, channelNameMap, i + 1)
  ELSE matchByDisplayName(addMatch(s, epg, i, epg[i].DisplayName, "display-name"),
                          epg, channelNameMap, i + 1)

\* A variant that prefers a channel of another region to one of no region.
scoreRegionMatchSwapped(m3uRegion, epgRegion) ==
  IF m3uRegion # "" /\ epgRegion = m3uRegion THEN 2
  ELSE IF epgRegion = "" THEN 0
  ELSE 1

scoreRegionMatch(m3uRegion, epgRegion) ==
  IF m3uRegion # "" /\ epgRegion = m3uRegion THEN 2
  ELSE IF epgRegion = "" THEN 1
  ELSE 0

\* findBestNormalizedMatch: the loop from guide index i on; 0 for the code's -1.
RECURSIVE findBestNormalizedMatch(_, _, _, _, _, _)
findBestNormalizedMatch(s, epg, m3uInfo, i, bestIdx, bestScore) ==
  IF i > Len(epg) THEN bestIdx
  ELSE IF i \in s.matchedEPG
    THEN findBestNormalizedMatch(s, epg, m3uInfo, i + 1, bestIdx, bestScore)
  ELSE IF Normalized(epg[i].DisplayName) # m3uInfo.normalizedName
    THEN findBestNormalizedMatch(s, epg, m3uInfo, i + 1, bestIdx, bestScore)
  ELSE LET score == scoreRegionMatch(m3uInfo.region, Region(epg[i].DisplayName))
       IN  IF score > bestScore
             THEN findBestNormalizedMatch(s, epg, m3uInfo, i + 1, i, score)
             ELSE findBestNormalizedMatch(s, epg, m3uInfo, i + 1, bestIdx, bestScore)

\* One iteration of the range loop of matchByNormalizedName, for the key k.
matchByNormalizedNameIter(s, epg, normalizedNameMap, k) ==
  LET m3uInfo == normalizedNameMap[k]
      bestIdx == findBestNormalizedMatch(s, epg, m3uInfo, 1, 0, -1)
  IN  IF m3uInfo.originalName \in s.matchedM3U THEN s
      ELSE IF bestIdx > 0
        THEN addMatch(s, epg, bestIdx, m3uInfo.originalName, "normalized-name")
      ELSE s

(***************************************************************************)
(* Filter and FilterForMerge after matchChannels has returned               *)
(***************************************************************************)
\* The placeholder programme's fixed window and description
\* ("20260101000000 +0000", "20260101235959 +0000",
\*  "No programme information available"), as tokens no guide programme of
\* the model carries.
FakeStart == <<"0">>
FakeStop  == <<"9">>
NoInfo    == <<"N">>

RECURSIVE Flatten(_)
Flatten(ss) == IF ss = <<>> THEN <<>> ELSE Head(ss) \o Flatten(Tail(ss))

\* The keys of channelIDMap of the form <original>-<number>, with the split
\* the loop over channelIDMap makes (strings.LastIndex, idx > 0, isNumericSuffix).
HasNumericSuffix(channelID) ==
  LET idx == LastIndex(channelID, "-")
  IN  idx > 1 /\ isNumericSuffix(SubSeq(channelID, idx + 1, Len(channelID)))

OriginalOf(channelID) == SubSeq(channelID, 1, LastIndex(channelID, "-") - 1)

SuffixedKeys(channelIDMap) == { id \in DOMAIN channelIDMap : HasNumericSuffix(id) }

\* originalIDMap, built by ranging over channelIDMap; order is the order in
\* which the range yields the suffixed keys.
originalIDMap(order) ==
  [ o \in { OriginalOf(order[i]) : i \in DOMAIN order } |->
      SelectSeq(order, LAMBDA id : OriginalOf(id) = o) ]

withCategory(program, channelID, channelIDMap, categoryMap) ==
  IF channelID \in DOMAIN channelIDMap /\ channelIDMap[channelID] \in DOMAIN categoryMap
    THEN [program EXCEPT !.Channel = channelID,
                         !.Category = categoryMap[channelIDMap[channelID]]]
    ELSE [program EXCEPT !.Channel = channelID]

\* What one iteration of the programme loop appends to filteredPrograms.
filterProgram(program, channelIDMap, categoryMap, origMap) ==
  (IF program.Channel \in DOMAIN channelIDMap
     THEN << withCategory(program, program.Channel, channelIDMap, categoryMap) >>
     ELSE << >>)
  \o
  (IF program.Channel \in DOMAIN origMap
     THEN [ j \in 1..Len(origMap[program.Channel]) |->
              withCategory(program, origMap[program.Channel][j], channelIDMap, categoryMap) ]
     ELSE << >>)

filterPrograms(programs, channelIDMap, categoryMap, origMap) ==
  Flatten([ i \in 1..Len(programs) |->
              filterProgram(programs[i], channelIDMap, categoryMap, origMap) ])

fakeChannelOf(m3uChannel) ==
  [ ID          |-> generateChannelID(m3uChannel.Name),
    DisplayName |-> m3uChannel.Name,
    Icon        |-> m3uChannel.TVGLogo ]

\* A variant that synthesizes a channel for an empty name too.
generateFakeEPGDataEmptyNames(m3u, channelIDMap) ==
  LET matchedM3UNames == Range(channelIDMap)
      unmatched == SelectSeq(m3u, LAMBDA c : c.Name \notin matchedM3UNames)
  IN  [ i \in 1..Len(unmatched) |-> fakeChannelOf(unmatched[i]) ]

generateFakeEPGData(m3u, channelIDMap) ==
  LET matchedM3UNames == Range(channelIDMap)
      unmatched == SelectSeq(m3u, LAMBDA c : c.Name \notin matchedM3UNames /\ c.Name # NoStr)
  IN  [ i \in 1..Len(unmatched) |-> fakeChannelOf(unmatched[i]) ]

fakeProgramOf(ch, categoryMap, channelIDMap) ==
  LET displayName == IF ch.ID \in DOMAIN channelIDMap THEN channelIDMap[ch.ID]
                                                      ELSE ch.DisplayName
  IN  [ Channel     |-> ch.ID,
        Start       |-> FakeStart,
        Stop        |-> FakeStop,
        Title       |-> displayName,
        Description |-> NoInfo,
        Category    |-> IF displayName \in DOMAIN categoryMap
                          THEN categoryMap[displayName] ELSE NoStr ]

generateFakePrograms(channels, channelsWithPrograms, categoryMap, channelIDMap) ==
  LET without == SelectSeq(channels, LAMBDA ch : ch.ID \notin channelsWithPrograms)
  IN  [ i \in 1..Len(without) |-> fakeProgramOf(without[i], categoryMap, channelIDMap) ]

\* channelIDMap[fakeChannel.ID] = fakeChannel.DisplayName, for each fake channel in order.
RECURSIVE addFakeToMap(_, _)
addFakeToMap(channelIDMap, fakeChannels) ==
  IF fakeChannels = <<>> THEN channelIDMap
  ELSE addFakeToMap(MapPut(channelIDMap, Head(fakeChannels).ID, Head(fakeChannels).DisplayName),
                    Tail(fakeChannels))

\* Filter from the return of matchChannels on: the guide and the map it returns.
FilterResultOf(s, m3u, programs, order) ==
  LET categoryMap      == buildCategoryMap(m3u)
      filteredPrograms == filterPrograms(programs, s.channelIDMap, categoryMap,
                                         originalIDMap(order))
      channelsWithPrograms == { filteredPrograms[i].Channel : i \in DOMAIN filteredPrograms }
      fakeChannels     == generateFakeEPGData(m3u, s.channelIDMap)
      allChannels      == s.matchedChannels \o fakeChannels
      newMap           == addFakeToMap(s.channelIDMap, fakeChannels)
      fakePrograms     == generateFakePrograms(allChannels, channelsWithPrograms,
                                               categoryMap, newMap)
  IN  [ Channels   |-> allChannels,
        Programs   |-> filteredPrograms \o fakePrograms,
        ChannelMap |-> newMap ]

\* FilterForMerge from the return of matchChannels on: the FilterResult.
FilterForMergeResultOf(s, m3u, programs, order) ==
  [ Channels   |-> s.matchedChannels,
    Programs   |-> filterPrograms(programs, s.channelIDMap, buildCategoryMap(m3u),
                                  originalIDMap(order)),
    ChannelMap |-> s.channelIDMap ]

NoResult == [ Channels |-> <<>>, Programs |-> <<>>, ChannelMap |-> EmptyMap ]

(***************************************************************************)
(* Multi-source merge: MergeEPGs and AddFakeChannels                        *)
(***************************************************************************)
IdP == <<"p">>
IdE == <<"e">>
MergeIDs   == {IdP, IdE}
MergeNames == {NameF, NameE}
Starts     == {<<"1">>, <<"2">>}

MaxSources    == 2
MaxMergeProgs == 1
WideMergeProgs == 2

\* The identifier->name maps FilterForMerge can return: no name twice.
MergeMaps ==
  UNION { { f \in [D -> MergeNames] : \A a, b \in D : a # b => f[a] # f[b] }
          : D \in SUBSET MergeIDs }

\* One channel per key of the map, carrying the guide's own display name and an
\* icon that tells the source.
MergeChannelsOf(map, src) ==
  LET order == CHOOSE o \in Orders(DOMAIN map) : TRUE
  IN  [ i \in 1..Len(order) |->
          [ID |-> order[i], DisplayName |-> <<"G">> \o order[i], Icon |-> Itoa(src)] ]

\* Lists of up to n programmes on identifiers of the map; the title tells the
\* source and the position in the list.
MergeProgramsOf(map, src, n) ==
  UNION { { [ j \in 1..k |->
                [ Channel |-> c[j][1], Start |-> c[j][2], Stop |-> <<"9">>,
                  Title |-> Itoa(src) \o Itoa(j), Description |-> <<"d">>,
                  Category |-> NoStr ] ]
            : c \in [1..k -> (DOMAIN map) \X Starts] }
          : k \in 0..n }

\* The results of FilterForMerge on the source of priority src.
FilterResults(src, n) ==
  UNION { { [ Channels   |-> MergeChannelsOf(map, src),
              Programs   |-> progs,
              ChannelMap |-> map ] : progs \in MergeProgramsOf(map, src, n) }
          : map \in MergeMaps }

RECURSIVE ResultLists(_, _)
ResultLists(len, n) ==
  IF len = 0 THEN {<<>>}
  ELSE { Append(rs, r) : rs \in ResultLists(len - 1, n), r \in FilterResults(len, n) }

MergeM3UUniverse ==
  { [Name |-> NameF, TVGID |-> NoStr, TVGLogo |-> <<"l">>, Group |-> <<"g">>],
    [Name |-> NameE, TVGID |-> NoStr, TVGLogo |-> NoStr,   Group |-> NoStr],
    [Name |-> NoStr, TVGID |-> NoStr, TVGLogo |-> <<"l">>, Group |-> <<"g">>] }

Lookup(f, k) == IF k \in DOMAIN f THEN f[k] ELSE <<>>

hasOverlap(existing, newProg) ==
  \E i \in DOMAIN existing : existing[i].Start = newProg.Start

\* The channel entry MergeEPGs emits when it claims m3uName for epgID: the
\* first channel of the source with that identifier, renamed.
claimedChannel(channels, epgID, m3uName) ==
  LET hits == { i \in DOMAIN channels : channels[i].ID = epgID }
  IN  IF hits = {} THEN <<>>
      ELSE << [channels[FirstIdx(hits)] EXCEPT !.DisplayName = m3uName] >>

\* A variant in which the last source to have the name owns it.
claimNameAlways(m3uToEPG, m3uName, epgID) == MapPut(m3uToEPG, m3uName, epgID)

claimName(m3uToEPG, m3uName, epgID) ==
  IF m3uName \in DOMAIN m3uToEPG THEN m3uToEPG ELSE MapPut(m3uToEPG, m3uName, epgID)

\* The programmes of the source on epgID, remapped and appended unless a kept
\* programme has their start.
RECURSIVE mergePrograms(_, _, _, _)
mergePrograms(existing, programs, epgID, primaryID) ==
  IF programs = <<>> THEN existing
  ELSE LET prog     == Head(programs)
           remapped == [prog EXCEPT !.Channel = primaryID]
       IN  IF prog.Channel # epgID \/ hasOverlap(existing, remapped)
             THEN mergePrograms(existing, Tail(programs), epgID, primaryID)
             ELSE mergePrograms(Append(existing, remapped), Tail(programs), epgID, primaryID)

NoMerged == [ Channels |-> <<>>, Programs |-> <<>>, ChannelMap |-> EmptyMap ]
NoTV     == [ Channels |-> <<>>, Programs |-> <<>> ]

AddFakeChannels(epgData, m3u, channelMap) ==
  LET channelsWithPrograms == { epgData.Programs[i].Channel : i \in DOMAIN epgData.Programs }
      categoryMap   == buildCategoryMap(m3u)
      fakeChannels  == generateFakeEPGData(m3u, channelMap)
      newChannelMap == addFakeToMap(channelMap, fakeChannels)
      allChannels   == epgData.Channels \o fakeChannels
      fakePrograms  == generateFakePrograms(allChannels, channelsWithPrograms,
                                            categoryMap, newChannelMap)
  IN  [ Channels |-> allChannels, Programs |-> epgData.Programs \o fakePrograms ]

(***************************************************************************)
(* The state machine of one call of Filter / FilterForMerge                 *)
(***************************************************************************)
VARIABLES m3uChannels, epgChannels, epgPrograms, state, pc, todo, result,
          results, ri, mtodo, m3uToEPGID, channelPrograms, merged, finalEPG,
          normIn, normOut,
          store, calls,
          server, refresher, contexts, runs, callers,
          fetchIn, fi, fetchErr,
          parseIn, scanned, currentChannel, channels, parseRet,
          hdhrIn, lineupResp, tuneResp, rewritten

mergeVars == <<results, ri, mtodo, m3uToEPGID, channelPrograms, merged, finalEPG>>
normVars  == <<normIn, normOut>>
storeVars == <<store, calls>>
refreshVars == <<server, refresher, contexts, runs, callers>>
fetchVars == <<fetchIn, fi, fetchErr>>
parseVars == <<parseIn, scanned, currentChannel, channels, parseRet>>
hdhrVars == <<hdhrIn, lineupResp, tuneResp, rewritten>>
serviceVars == <<storeVars, refreshVars, fetchVars, parseVars, hdhrVars>>
otherVars == <<normVars, serviceVars>>
vars == <<m3uChannels, epgChannels, epgPrograms, state, pc, todo, result, mergeVars,
          otherVars>>

NoCall == <<>>

\* normalizeChannelName is not being called on its own.
NormIdle == normIn = NoCall /\ normOut = NoCall

\* No Store exists.
StoreIdle == store = NoCall /\ calls = NoCall

\* No Server exists.
RefreshIdle ==
  /\ server = NoCall
  /\ refresher = NoCall
  /\ contexts = NoCall
  /\ runs = NoCall
  /\ callers = NoCall

\* No Fetcher is running.
FetchIdle == fetchIn = NoCall /\ fi = 0 /\ fetchErr = NoCall

\* m3u.Parse is not running.
ParseIdle ==
  /\ parseIn = NoCall
  /\ scanned = 0
  /\ currentChannel = NoCall
  /\ channels = NoCall
  /\ parseRet = NoCall

\* No HTTP handler is serving.
HDHRIdle ==
  /\ hdhrIn = NoCall
  /\ lineupResp = NoCall
  /\ tuneResp = NoCall
  /\ rewritten = NoCall

\* Nothing of the service around the engine is running.
ServiceIdle == StoreIdle /\ RefreshIdle /\ FetchIdle /\ ParseIdle /\ HDHRIdle

\* Nothing but the engine is running.
OthersIdle == NormIdle /\ ServiceIdle

\* No merge is running.
MergeIdle ==
  /\ results = <<>>
  /\ ri = 0
  /\ mtodo = {}
  /\ m3uToEPGID = EmptyMap
  /\ channelPrograms = EmptyMap
  /\ merged = NoMerged
  /\ finalEPG = NoTV

InitMatcher ==
  /\ epgPrograms = <<>>
  /\ state = newMatcherState
  /\ pc = "tvgid"
  /\ todo = DOMAIN buildTVGIDMap(m3uChannels)
  /\ result = NoResult

Init ==
  /\ m3uChannels \in SeqsUpTo(M3UUniverse, MaxM3U)
  /\ epgChannels \in SeqsUpTo(EPGUniverse, MaxEPG)
  /\ InitMatcher
  /\ MergeIdle
  /\ OthersIdle

InitWide ==
  /\ m3uChannels \in SeqsUpTo(M3UUniverse, WideM3U)
  /\ epgChannels \in SeqsUpTo(EPGUniverse, WideEPG)
  /\ InitMatcher
  /\ MergeIdle
  /\ OthersIdle

MatchByTVGIDStep ==
  /\ pc = "tvgid"
  /\ \E tvgID \in todo :
       /\ state' = matchByTVGIDIter(state, epgChannels, buildTVGIDMap(m3uChannels), tvgID)
       /\ todo' = todo \ {tvgID}
  /\ UNCHANGED <<m3uChannels, epgChannels, epgPrograms, pc, result, mergeVars, otherVars>>

MatchByDisplayName ==
  /\ pc = "tvgid"
  /\ todo = {}
  /\ state' = matchByDisplayName(state, epgChannels, buildChannelNameMap(m3uChannels), 1)
  /\ pc' = "normalized"
  /\ todo' = DOMAIN buildNormalizedNameMap(m3uChannels)
  /\ UNCHANGED <<m3uChannels, epgChannels, epgPrograms, result, mergeVars, otherVars>>

MatchByNormalizedNameStep ==
  /\ pc = "normalized"
  /\ \E k \in todo :
       /\ state' = matchByNormalizedNameIter(state, epgChannels,
                                             buildNormalizedNameMap(m3uChannels), k)
       /\ todo' = todo \ {k}
  /\ UNCHANGED <<m3uChannels, epgChannels, epgPrograms, pc, result, mergeVars, otherVars>>

\* matchChannels returns (logUnmatched only writes to the log).
MatchReturn ==
  /\ pc = "normalized"
  /\ todo = {}
  /\ pc' = "matched"
  /\ UNCHANGED <<m3uChannels, epgChannels, epgPrograms, state, todo, result, mergeVars, otherVars>>

\* The rest of Filter, on the guide's programme list.
Filter ==
  /\ pc = "matched"
  /\ \E programs \in SeqsUpTo(ProgUniverse, MaxProgs) :
       \E order \in Orders(SuffixedKeys(state.channelIDMap)) :
         /\ epgPrograms' = programs
         /\ result' = FilterResultOf(state, m3uChannels, programs, order)
  /\ pc' = "Filter"
  /\ UNCHANGED <<m3uChannels, epgChannels, state, todo, mergeVars, otherVars>>

\* The rest of FilterForMerge.
FilterForMerge ==
  /\ pc = "matched"
  /\ \E programs \in SeqsUpTo(ProgUniverse, MaxProgs) :
       \E order \in Orders(SuffixedKeys(state.channelIDMap)) :
         /\ epgPrograms' = programs
         /\ result' = FilterForMergeResultOf(state, m3uChannels, programs, order)
  /\ pc' = "FilterForMerge"
  /\ UNCHANGED <<m3uChannels, epgChannels, state, todo, mergeVars, otherVars>>

Next ==
  \/ MatchByTVGIDStep
  \/ MatchByDisplayName
  \/ MatchByNormalizedNameStep
  \/ MatchReturn
  \/ Filter
  \/ FilterForMerge

Spec == Init /\ [][Next]_vars

\* Playlists in which entries of different names carry the same tvg-id.
HintM3UUniverse ==
  { [Name |-> NameF, TVGID |-> IdA,   TVGLogo |-> NoStr, Group |-> NoStr],
    [Name |-> NameE, TVGID |-> IdA,   TVGLogo |-> NoStr, Group |-> NoStr],
    [Name |-> NameF, TVGID |-> IdA2,  TVGLogo |-> NoStr, Group |-> NoStr],
    [Name |-> NameE, TVGID |-> NoStr, TVGLogo |-> NoStr, Group |-> NoStr] }

InitHints ==
  /\ m3uChannels \in SeqsUpTo(HintM3UUniverse, MaxM3U)
  /\ epgChannels \in SeqsUpTo(EPGUniverse, MaxEPG)
  /\ InitMatcher
  /\ MergeIdle
  /\ OthersIdle

SpecHints == InitHints /\ [][Next]_vars

SpecWide == InitWide /\ [][Next]_vars

\* Guides in which channels of different identifiers carry the same display
\* name.
DupEPGUniverse ==
  { [ID |-> IdA,  DisplayName |-> NameF, Icon |-> <<"i">>],
    [ID |-> IdA2, DisplayName |-> NameF, Icon |-> <<"i">>],
    [ID |-> IdA,  DisplayName |-> NameE, Icon |-> <<"i">>] }

InitDup ==
  /\ m3uChannels \in SeqsUpTo(M3UUniverse, MaxM3U)
  /\ epgChannels \in SeqsUpTo(DupEPGUniverse, WideEPG)
  /\ InitMatcher
  /\ MergeIdle
  /\ OthersIdle

SpecDup == InitDup /\ [][Next]_vars

(***************************************************************************)
(* The state machine of FetchEPG from MergeEPGs on                          *)
(***************************************************************************)
matcherVars == <<epgChannels, epgPrograms, state, todo, result>>

MatcherIdle ==
  /\ m3uChannels = <<>>
  /\ epgChannels = <<>>
  /\ epgPrograms = <<>>
  /\ state = newMatcherState
  /\ todo = {}
  /\ result = NoResult

InitMergeState ==
  /\ pc = "merge"
  /\ ri = 0
  /\ mtodo = {}
  /\ m3uToEPGID = EmptyMap
  /\ channelPrograms = EmptyMap
  /\ merged = NoMerged
  /\ finalEPG = NoTV
  /\ MatcherIdle
  /\ OthersIdle

InitMerge ==
  /\ results \in UNION { ResultLists(len, MaxMergeProgs) : len \in 1..MaxSources }
  /\ InitMergeState

InitMergeWide ==
  /\ results \in UNION { ResultLists(len, WideMergeProgs) : len \in 1..MaxSources }
  /\ InitMergeState

\* The outer loop of MergeEPGs takes the next source.
MergeNextSource ==
  /\ pc = "merge"
  /\ mtodo = {}
  /\ ri < Len(results)
  /\ ri' = ri + 1
  /\ mtodo' = DOMAIN results[ri + 1].ChannelMap
  /\ UNCHANGED <<m3uChannels, pc, results, m3uToEPGID, channelPrograms, merged,
                 finalEPG, matcherVars, otherVars>>

\* One iteration of the range over the source's map.
MergeEntry ==
  /\ pc = "merge"
  /\ \E epgID \in mtodo :
       LET r         == results[ri]
           m3uName   == r.ChannelMap[epgID]
           exists    == m3uName \in DOMAIN m3uToEPGID
           primaryID == claimName(m3uToEPGID, m3uName, epgID)[m3uName]
           kept      == mergePrograms(Lookup(channelPrograms, primaryID), r.Programs,
                                      epgID, primaryID)
       IN  /\ m3uToEPGID' = claimName(m3uToEPGID, m3uName, epgID)
           /\ merged' = IF exists THEN merged
                        ELSE [merged EXCEPT
                                !.ChannelMap = MapPut(@, epgID, m3uName),
                                !.Channels = @ \o claimedChannel(r.Channels, epgID, m3uName)]
           /\ channelPrograms' = IF kept = <<>> THEN channelPrograms
                                 ELSE MapPut(channelPrograms, primaryID, kept)
           /\ mtodo' = mtodo \ {epgID}
  /\ UNCHANGED <<m3uChannels, pc, results, ri, finalEPG, matcherVars, otherVars>>

\* The programmes are flattened, in the order the range over channelPrograms
\* takes, and MergeEPGs returns.
MergeFlatten ==
  /\ pc = "merge"
  /\ mtodo = {}
  /\ ri = Len(results)
  /\ \E order \in Orders(DOMAIN channelPrograms) :
       merged' = [merged EXCEPT
                    !.Programs = Flatten([i \in 1..Len(order) |-> channelPrograms[order[i]]])]
  /\ pc' = "merged"
  /\ UNCHANGED <<m3uChannels, results, ri, mtodo, m3uToEPGID, channelPrograms,
                 finalEPG, matcherVars, otherVars>>

\* FetchEPG hands the merged guide to AddFakeChannels with the stored playlist,
\* the one every source was filtered against.
AddFakeChannelsStep ==
  /\ pc = "merged"
  /\ \E m3u \in SeqsUpTo(MergeM3UUniverse, MaxM3U) :
       /\ Range(merged.ChannelMap) \subseteq { m3u[i].Name : i \in DOMAIN m3u }
       /\ \A s \in DOMAIN results :
            Range(results[s].ChannelMap) \subseteq { m3u[i].Name : i \in DOMAIN m3u }
       /\ m3uChannels' = m3u
       /\ finalEPG' = AddFakeChannels([Channels |-> merged.Channels,
                                       Programs |-> merged.Programs],
                                      m3u, merged.ChannelMap)
  /\ pc' = "stored"
  /\ UNCHANGED <<results, ri, mtodo, m3uToEPGID, channelPrograms, merged, matcherVars, otherVars>>

NextMerge ==
  \/ MergeNextSource
  \/ MergeEntry
  \/ MergeFlatten
  \/ AddFakeChannelsStep

SpecMerge == InitMerge /\ [][NextMerge]_vars

SpecMergeWide == InitMergeWide /\ [][NextMerge]_vars

(***************************************************************************)
(* normalizeChannelName on decorated names                                  *)
(***************************************************************************)
MaxSuffixes == 1

\* No table prefix and no table suffix occurs in the name, in any case.
IsBare(name) ==
  /\ \A k \in DOMAIN countryPrefixes : ~ Contains(ToUpper(name), ToUpper(countryPrefixes[k]))
  /\ \A k \in DOMAIN qualitySuffixes : ~ Contains(ToUpper(name), ToUpper(qualitySuffixes[k]))

BareNames ==
  { n \in { <<"E","S","P","N">>, <<"E","S","P","N"," ">>, DotlessI } : IsBare(n) }

InitNormalize ==
  /\ pc = "normalize"
  /\ normIn \in [ p : Range(countryPrefixes),
                  n : BareNames,
                  s : SeqsUpTo(Range(qualitySuffixes), MaxSuffixes) ]
  /\ normOut = NoCall
  /\ MatcherIdle
  /\ MergeIdle
  /\ ServiceIdle

\* normalizeChannelName is called on the decorated name and on the bare name.
NormalizeName ==
  /\ pc = "normalize"
  /\ normOut' = [ decorated |-> normalizeChannelName(normIn.p \o normIn.n \o Flatten(normIn.s)),
                  bare      |-> normalizeChannelName(normIn.n) ]
  /\ pc' = "normalized name"
  /\ UNCHANGED <<normIn, m3uChannels, mergeVars, matcherVars, serviceVars>>

NextNormalize == NormalizeName

SpecNormalize == InitNormalize /\ [][NextNormalize]_vars

(***************************************************************************)
(* normalizeChannelName on names with several prefixes                      *)
(***************************************************************************)
MaxPrefixes == 2

\* The first prefix of the ordered list the name starts with (0 when none),
\* and the name without it.
FirstPrefix(name) ==
  LET hits == { k \in DOMAIN countryPrefixes :
                  HasPrefix(ToUpper(name), ToUpper(countryPrefixes[k])) }
  IN  IF hits = {} THEN 0 ELSE FirstIdx(hits)

AfterFirstPrefix(name) ==
  IF FirstPrefix(name) = 0 THEN name
  ELSE SubSeq(name, Len(countryPrefixes[FirstPrefix(name)]) + 1, Len(name))

\* The rest of normalizeChannelName, from the suffix loop on.
normalizeRest(str) ==
  LET stripped == StripSuffixes(str, 1)
  IN  IF stripped = Panic THEN Panic ELSE ToLower(Fields(stripped))

InitPrefixes ==
  /\ pc = "prefixes"
  /\ normIn \in [ p : SeqsUpTo(Range(countryPrefixes), MaxPrefixes),
                  n : { <<"E","S","P","N">>, <<"F">> } ]
  /\ normOut = NoCall
  /\ MatcherIdle
  /\ MergeIdle
  /\ ServiceIdle

\* normalizeChannelName is called on the name with its prefixes.
NormalizePrefixed ==
  /\ pc = "prefixes"
  /\ normOut' = [ name       |-> Flatten(normIn.p) \o normIn.n,
                  normalized |-> normalizeChannelName(Flatten(normIn.p) \o normIn.n) ]
  /\ pc' = "prefixes stripped"
  /\ UNCHANGED <<normIn, m3uChannels, mergeVars, matcherVars, serviceVars>>

NextPrefixes == NormalizePrefixed

SpecPrefixes == InitPrefixes /\ [][NextPrefixes]_vars

\* The matching and merge engine is not running.
engineVars == <<m3uChannels, matcherVars, mergeVars, normVars>>

EngineIdle == MatcherIdle /\ MergeIdle /\ NormIdle

(***************************************************************************)
(* Store: SetEPG and GetEPG under the read-write mutex (store.go)           *)
(***************************************************************************)
MaxCalls == 2

besideStore == <<engineVars, refreshVars, fetchVars, parseVars, hdhrVars>>

Writers == { "w1", "w2" }
Readers == { "r1", "r2" }
NoHolder == "none"
Nil == <<>>

\* A pointer, or a slice that is not nil, and what it refers to.
Ref(x) == <<x>>
Deref(ptr) == ptr[1]

\* The arguments of the i-th SetEPG call of goroutine w: the guide document
\* and the identifier -> name map of one refresh.
DataOf(w, i) == <<"document", w, i>>
MapOf(w, i)  == <<"map", w, i>>

\* The results of GetEPG when there is no document.
NoData == [ data |-> Nil, cmap |-> Nil, ok |-> FALSE ]

\* NewStore: no document, an empty map.
NewStore ==
  [ mu         |-> [ writer |-> NoHolder, readers |-> {} ],
    m3uChannels |-> Nil,
    epgData    |-> Nil,
    channelMap |-> EmptyMap,
    lastSync   |-> 0 ]

\* sync.RWMutex: Lock waits for the writer and for all readers.
CanLock(mu) == mu.writer = NoHolder /\ mu.readers = {}

CanRLockAlways(mu) == TRUE

\* sync.RWMutex: RLock waits while a writer holds the lock.
CanRLock(mu) == mu.writer = NoHolder

\* The goroutines of TestConcurrentAccess, each between two calls.
InitStore ==
  /\ pc = "store"
  /\ store = NewStore
  /\ calls = [ g \in Writers \cup Readers |-> [ at |-> "idle", i |-> 0, ret |-> NoData ] ]
  /\ EngineIdle
  /\ RefreshIdle
  /\ FetchIdle
  /\ ParseIdle
  /\ HDHRIdle

\* s.mu.Lock()
SetEPGLock(w) ==
  /\ calls[w].at = "idle"
  /\ calls[w].i < MaxCalls
  /\ CanLock(store.mu)
  /\ store' = [ store EXCEPT !.mu.writer = w ]
  /\ calls' = [ calls EXCEPT ![w].at = "locked" ]
  /\ UNCHANGED <<pc, besideStore>>

\* s.epgData = data
SetEPGData(w) ==
  /\ calls[w].at = "locked"
  /\ store' = [ store EXCEPT !.epgData = DataOf(w, calls[w].i + 1) ]
  /\ calls' = [ calls EXCEPT ![w].at = "data written" ]
  /\ UNCHANGED <<pc, besideStore>>

\* s.channelMap = channelMap
SetEPGMap(w) ==
  /\ calls[w].at = "data written"
  /\ store' = [ store EXCEPT !.channelMap = MapOf(w, calls[w].i + 1) ]
  /\ calls' = [ calls EXCEPT ![w].at = "map written" ]
  /\ UNCHANGED <<pc, besideStore>>

\* s.lastSync = time.Now(), then the deferred s.mu.Unlock()
SetEPGUnlock(w) ==
  /\ calls[w].at = "map written"
  /\ store' = [ store EXCEPT !.lastSync = store.lastSync + 1, !.mu.writer = NoHolder ]
  /\ calls' = [ calls EXCEPT ![w].at = "idle", ![w].i = calls[w].i + 1 ]
  /\ UNCHANGED <<pc, besideStore>>

\* s.mu.RLock()
GetEPGRLock(r) ==
  /\ calls[r].at = "idle"
  /\ calls[r].i < MaxCalls
  /\ CanRLock(store.mu)
  /\ store' = [ store EXCEPT !.mu.readers = store.mu.readers \cup { r } ]
  /\ calls' = [ calls EXCEPT ![r].at = "rlocked", ![r].ret = NoData ]
  /\ UNCHANGED <<pc, besideStore>>

\* if s.epgData == nil { return nil, nil, false }
GetEPGCheck(r) ==
  /\ calls[r].at = "rlocked"
  /\ calls' = [ calls EXCEPT
                  ![r].at  = IF store.epgData = Nil THEN "returning" ELSE "read data",
                  ![r].ret = NoData ]
  /\ UNCHANGED <<pc, store, besideStore>>

\* return s.epgData, ... : the first operand is read
GetEPGReadData(r) ==
  /\ calls[r].at = "read data"
  /\ calls' = [ calls EXCEPT ![r].at = "read map",
                             ![r].ret = [ data |-> store.epgData, cmap |-> Nil, ok |-> TRUE ] ]
  /\ UNCHANGED <<pc, store, besideStore>>

\* return ..., s.channelMap, true : the second operand is read
GetEPGReadMap(r) ==
  /\ calls[r].at = "read map"
  /\ calls' = [ calls EXCEPT ![r].at = "returning",
                             ![r].ret = [ calls[r].ret EXCEPT !.cmap = store.channelMap ] ]
  /\ UNCHANGED <<pc, store, besideStore>>

\* the deferred s.mu.RUnlock(); the caller has the three results
GetEPGRUnlock(r) ==
  /\ calls[r].at = "returning"
  /\ store' = [ store EXCEPT !.mu.readers = store.mu.readers \ { r } ]
  /\ calls' = [ calls EXCEPT ![r].at = "idle", ![r].i = calls[r].i + 1 ]
  /\ UNCHANGED <<pc, besideStore>>

NextStore ==
  \/ \E w \in Writers : SetEPGLock(w)
  \/ \E w \in Writers : SetEPGData(w)
  \/ \E w \in Writers : SetEPGMap(w)
  \/ \E w \in Writers : SetEPGUnlock(w)
  \/ \E r \in Readers : GetEPGRLock(r)
  \/ \E r \in Readers : GetEPGCheck(r)
  \/ \E r \in Readers : GetEPGReadData(r)
  \/ \E r \in Readers : GetEPGReadMap(r)
  \/ \E r \in Readers : GetEPGRUnlock(r)

SpecStore == InitStore /\ [][NextStore]_vars

(***************************************************************************)
(* Server and Refresher: Start, Stop, the refresh loop (refresher.go,       *)
(* server.go)                                                               *)
(***************************************************************************)
MaxContexts == 4

besideRefresh == <<engineVars, storeVars, fetchVars, parseVars, hdhrVars>>

Callers == { "c1", "c2" }
NoContext == 0
Free == "free"

\* context.WithCancel(parent) together with make(chan struct{}): the k-th
\* context and the k-th done channel are made by the same call of Start.
NewContext(parent) == [ parent |-> parent, cancelled |-> FALSE, closed |-> FALSE ]

\* ctx.Done() is closed: the context or its parent was cancelled.
Cancelled(k) ==
  \/ contexts[k].cancelled
  \/ contexts[k].parent # NoContext /\ contexts[contexts[k].parent].cancelled

\* The calls of FetchAll in progress: the initial fetch of Server.Start and
\* the refresh of every run goroutine.
FetchAllInProgress ==
  Cardinality({ c \in DOMAIN callers : callers[c].at = "initial fetch" })
    + Cardinality({ g \in DOMAIN runs : runs[g].at = "fetching" })

Idle == [ at |-> "idle", cancel |-> NoContext, done |-> NoContext ]

\* NewServer, and the goroutines that call Start and Stop.
InitRefreshOf(who) ==
  /\ pc = "serve"
  /\ server = [ mu |-> Free, cancel |-> NoContext, done |-> NoContext ]
  /\ refresher = [ cancel |-> NoContext, done |-> NoContext ]
  /\ contexts = <<>>
  /\ runs = <<>>
  /\ callers = [ c \in who |-> Idle ]
  /\ EngineIdle
  /\ StoreIdle
  /\ FetchIdle
  /\ ParseIdle
  /\ HDHRIdle

InitRefresh == InitRefreshOf(Callers)

InitRefreshOneCaller == InitRefreshOf({ "c1" })

\* Server.Start up to the call of FetchAll: s.mu is taken; a running server
\* makes Start return an error, otherwise the context and the done channel
\* are made and the initial fetch begins.
ServerStart(c) ==
  /\ pc = "serve"
  /\ callers[c].at = "idle"
  /\ server.mu = Free
  /\ Len(contexts) + 2 <= MaxContexts
  /\ IF server.cancel # NoContext
     THEN UNCHANGED <<server, contexts, callers>>
     ELSE /\ contexts' = Append(contexts, NewContext(NoContext))
          /\ server' = [ mu |-> c, cancel |-> Len(contexts) + 1, done |-> Len(contexts) + 1 ]
          /\ callers' = [ callers EXCEPT ![c].at = "initial fetch" ]
  /\ UNCHANGED <<pc, refresher, runs, besideRefresh>>

\* The initial FetchAll fails: cancel(), and Start returns the error (the
\* deferred Unlock runs; s.cancel and s.done stay set).
ServerStartFetchFailed(c) ==
  /\ pc = "serve"
  /\ callers[c].at = "initial fetch"
  /\ contexts' = [ contexts EXCEPT ![server.cancel].cancelled = TRUE ]
  /\ server' = [ server EXCEPT !.mu = Free ]
  /\ callers' = [ callers EXCEPT ![c] = Idle ]
  /\ UNCHANGED <<pc, refresher, runs, besideRefresh>>

\* Refresher.Start under r.mu: nothing when r.cancel is set, otherwise a new
\* context, a new done channel and the run goroutine.  The result is the
\* refresher, the contexts and the goroutines after the call.
RefresherStart(parent) ==
  IF refresher.cancel # NoContext
  THEN [ refresher |-> refresher, contexts |-> contexts, runs |-> runs ]
  ELSE [ refresher |-> [ cancel |-> Len(contexts) + 1, done |-> Len(contexts) + 1 ],
         contexts  |-> Append(contexts, NewContext(parent)),
         runs      |-> Append(runs, [ kind |-> "refresher", ctx |-> Len(contexts) + 1,
                                      at |-> "spawned", done |-> NoContext ]) ]

\* The initial FetchAll succeeds: Server.Start starts the refresher, starts
\* s.run and returns (the deferred Unlock runs).
ServerStartFetched(c) ==
  /\ pc = "serve"
  /\ callers[c].at = "initial fetch"
  /\ refresher' = RefresherStart(server.cancel).refresher
  /\ contexts' = RefresherStart(server.cancel).contexts
  /\ runs' = Append(RefresherStart(server.cancel).runs,
                    [ kind |-> "server", ctx |-> server.cancel,
                      at |-> "spawned", done |-> NoContext ])
  /\ server' = [ server EXCEPT !.mu = Free ]
  /\ callers' = [ callers EXCEPT ![c] = Idle ]
  /\ UNCHANGED <<pc, besideRefresh>>

\* Server.Stop under s.mu: cancel and done are taken and cleared; Stop
\* returns when there was no cancel.
ServerStop(c) ==
  /\ pc = "serve"
  /\ callers[c].at = "idle"
  /\ server.mu = Free
  /\ callers' = [ callers EXCEPT ![c] =
                    IF server.cancel = NoContext
                    THEN Idle
                    ELSE [ at |-> "cancel", cancel |-> server.cancel, done |-> server.done ] ]
  /\ server' = [ server EXCEPT !.cancel = NoContext, !.done = NoContext ]
  /\ UNCHANGED <<pc, refresher, contexts, runs, besideRefresh>>

\* Server.Stop: cancel()
ServerStopCancel(c) ==
  /\ pc = "serve"
  /\ callers[c].at = "cancel"
  /\ contexts' = [ contexts EXCEPT ![callers[c].cancel].cancelled = TRUE ]
  /\ callers' = [ callers EXCEPT ![c].at = "wait done" ]
  /\ UNCHANGED <<pc, server, refresher, runs, besideRefresh>>

\* Server.Stop: <-done returns, then Refresher.Stop under r.mu takes and
\* clears r.cancel and r.done.
ServerStopRefresher(c) ==
  /\ pc = "serve"
  /\ callers[c].at = "wait done"
  /\ callers[c].done # NoContext => contexts[callers[c].done].closed
  /\ callers' = [ callers EXCEPT ![c] =
                    IF refresher.cancel = NoContext
                    THEN Idle
                    ELSE [ at |-> "refresher cancel", cancel |-> refresher.cancel,
                           done |-> refresher.done ] ]
  /\ refresher' = [ cancel |-> NoContext, done |-> NoContext ]
  /\ UNCHANGED <<pc, server, contexts, runs, besideRefresh>>

\* Refresher.Stop: cancel()
RefresherStopCancel(c) ==
  /\ pc = "serve"
  /\ callers[c].at = "refresher cancel"
  /\ contexts' = [ contexts EXCEPT ![callers[c].cancel].cancelled = TRUE ]
  /\ callers' = [ callers EXCEPT ![c].at = "refresher wait done" ]
  /\ UNCHANGED <<pc, server, refresher, runs, besideRefresh>>

\* Refresher.Stop: <-done returns, and Server.Stop returns.
RefresherStopped(c) ==
  /\ pc = "serve"
  /\ callers[c].at = "refresher wait done"
  /\ callers[c].done # NoContext => contexts[callers[c].done].closed
  /\ callers' = [ callers EXCEPT ![c] = Idle ]
  /\ UNCHANGED <<pc, server, refresher, contexts, runs, besideRefresh>>

\* run begins: defer close(r.done) / defer close(s.done) reads the field
\* without the mutex.
RunBegin(g) ==
  /\ pc = "serve"
  /\ runs[g].at = "spawned"
  /\ runs' = [ runs EXCEPT ![g].at = "running",
                           ![g].done = IF runs[g].kind = "server"
                                       THEN server.done ELSE refresher.done ]
  /\ UNCHANGED <<pc, server, refresher, contexts, callers, besideRefresh>>

\* Refresher.run: case <-ticker.C: r.refresh(ctx) calls FetchAll.  select
\* may take this case also when ctx.Done() is ready.
RefreshTick(g) ==
  /\ pc = "serve"
  /\ runs[g].kind = "refresher"
  /\ runs[g].at = "running"
  /\ runs' = [ runs EXCEPT ![g].at = "fetching" ]
  /\ UNCHANGED <<pc, server, refresher, contexts, callers, besideRefresh>>

\* FetchAll returns (with or without an error) and refresh returns.
RefreshFetched(g) ==
  /\ pc = "serve"
  /\ runs[g].at = "fetching"
  /\ runs' = [ runs EXCEPT ![g].at = "running" ]
  /\ UNCHANGED <<pc, server, refresher, contexts, callers, besideRefresh>>

\* run returns: case <-ctx.Done() (for s.run also an error of
\* ListenAndServe), and the deferred close runs.  close of a nil or of a
\* closed channel panics.
RunExit(g) ==
  /\ pc = "serve"
  /\ runs[g].at = "running"
  /\ Cancelled(runs[g].ctx) \/ runs[g].kind = "server"
  /\ runs' = [ runs EXCEPT ![g].at = "exited" ]
  /\ IF runs[g].done = NoContext \/ contexts[runs[g].done].closed
     THEN pc' = "panic" /\ UNCHANGED contexts
     ELSE pc' = pc /\ contexts' = [ contexts EXCEPT ![runs[g].done].closed = TRUE ]
  /\ UNCHANGED <<server, refresher, callers, besideRefresh>>

NextRefresh ==
  \/ \E c \in DOMAIN callers : ServerStart(c)
  \/ \E c \in DOMAIN callers : ServerStartFetchFailed(c)
  \/ \E c \in DOMAIN callers : ServerStartFetched(c)
  \/ \E c \in DOMAIN callers : ServerStop(c)
  \/ \E c \in DOMAIN callers : ServerStopCancel(c)
  \/ \E c \in DOMAIN callers : ServerStopRefresher(c)
  \/ \E c \in DOMAIN callers : RefresherStopCancel(c)
  \/ \E c \in DOMAIN callers : RefresherStopped(c)
  \/ \E g \in DOMAIN runs : RunBegin(g)
  \/ \E g \in DOMAIN runs : RefreshTick(g)
  \/ \E g \in DOMAIN runs : RefreshFetched(g)
  \/ \E g \in DOMAIN runs : RunExit(g)

SpecRefresh == InitRefresh /\ [][NextRefresh]_vars

SpecRefreshOneCaller == InitRefreshOneCaller /\ [][NextRefresh]_vars

(***************************************************************************)
(* Fetcher: one refresh cycle, FetchAll = FetchM3U then FetchEPG            *)
(* (fetcher.go)                                                             *)
(***************************************************************************)
\* net/http status codes the handlers answer with.
StatusOK == 200
StatusTemporaryRedirect == 307
StatusBadRequest == 400
StatusNotFound == 404
StatusServiceUnavailable == 503

MaxFetchSources == 3
MaxFetchProgs == 1

\* What f.fetch and the parser make of one configured URL.
Outcomes == { "fetch failed", "parse failed", "ok" }

\* The playlist behind m3uURL: unreachable or unparsable, or a channel list.
PlaylistInputs ==
  { [ outcome |-> o, channels |-> <<>> ] : o \in { "fetch failed", "parse failed" } }
    \cup { [ outcome |-> "ok", channels |-> m3u ] : m3u \in SeqsUpTo(MergeM3UUniverse, MaxM3U) }

\* The guide behind the URL of priority src: unreachable or unparsable, or a
\* guide, given by what FilterForMerge returns for it against the playlist.
SourceInputs(src, m3u) ==
  { [ outcome |-> o, result |-> NoResult ] : o \in { "fetch failed", "parse failed" } }
    \cup { [ outcome |-> "ok", result |-> r ] :
             r \in { q \in FilterResults(src, MaxFetchProgs) :
                       Range(q.ChannelMap) \subseteq { m3u[i].Name : i \in DOMAIN m3u } } }

RECURSIVE SourceLists(_, _)
SourceLists(len, m3u) ==
  IF len = 0 THEN {<<>>}
  ELSE { Append(ss, x) : ss \in SourceLists(len - 1, m3u), x \in SourceInputs(len, m3u) }

\* NewFetcher on a new Store; the inputs are what the URLs will deliver.
InitFetch ==
  /\ pc = "fetch m3u"
  /\ \E pl \in PlaylistInputs :
       \E n \in 1..MaxFetchSources :
         \E ss \in SourceLists(n, pl.channels) :
           fetchIn = [ m3u |-> pl, sources |-> ss ]
  /\ fi = 0
  /\ fetchErr = NoCall
  /\ store = NewStore
  /\ calls = NoCall
  /\ RefreshIdle
  /\ EngineIdle
  /\ ParseIdle
  /\ HDHRIdle

besideFetch == <<matcherVars, normVars, refreshVars, calls, parseVars, hdhrVars>>

\* FetchM3U: the playlist is stored, or FetchAll returns the error.
FetchM3U ==
  /\ pc = "fetch m3u"
  /\ IF fetchIn.m3u.outcome = "ok"
     THEN /\ store' = [ store EXCEPT !.m3uChannels = Ref(fetchIn.m3u.channels),
                                     !.lastSync = store.lastSync + 1 ]
          /\ pc' = "fetch epg"
          /\ UNCHANGED fetchErr
     ELSE /\ fetchErr' = <<"failed to fetch M3U">>
          /\ pc' = "returned"
          /\ UNCHANGED store
  /\ UNCHANGED <<m3uChannels, mergeVars, fetchIn, fi, besideFetch>>

\* FetchEPG up to its loop: GetM3U.
FetchEPGGetM3U ==
  /\ pc = "fetch epg"
  /\ IF store.m3uChannels = Nil
     THEN /\ fetchErr' = <<"M3U data not available">>
          /\ pc' = "returned"
          /\ UNCHANGED m3uChannels
     ELSE /\ m3uChannels' = Deref(store.m3uChannels)
          /\ pc' = "sources"
          /\ UNCHANGED fetchErr
  /\ UNCHANGED <<store, mergeVars, fetchIn, fi, besideFetch>>

CollectSourceInFront(rs, src) ==
  IF src.outcome = "ok" THEN <<src.result>> \o rs ELSE rs

\* One round of the loop over epgURLs: a source that fails is logged and
\* skipped, the result of any other is appended.
CollectSource(rs, src) ==
  IF src.outcome = "ok" THEN Append(rs, src.result) ELSE rs

FetchSource ==
  /\ pc = "sources"
  /\ fi < Len(fetchIn.sources)
  /\ fi' = fi + 1
  /\ results' = CollectSource(results, fetchIn.sources[fi + 1])
  /\ UNCHANGED <<pc, m3uChannels, ri, mtodo, m3uToEPGID, channelPrograms, merged, finalEPG,
                 store, fetchIn, fetchErr, besideFetch>>

\* After the loop: no result is an error, otherwise MergeEPGs begins.
FetchLoopEnd ==
  /\ pc = "sources"
  /\ fi = Len(fetchIn.sources)
  /\ IF Len(results) = 0
     THEN fetchErr' = <<"all EPG sources failed">> /\ pc' = "returned"
     ELSE pc' = "merge" /\ UNCHANGED fetchErr
  /\ UNCHANGED <<m3uChannels, mergeVars, store, fetchIn, fi, besideFetch>>

\* After MergeEPGs: AddFakeChannels, SetEPG, and FetchEPG returns nil.
FetchStore ==
  /\ pc = "merged"
  /\ finalEPG' = AddFakeChannels([Channels |-> merged.Channels,
                                  Programs |-> merged.Programs],
                                 m3uChannels, merged.ChannelMap)
  /\ store' = [ store EXCEPT !.epgData = Ref(finalEPG'),
                             !.channelMap = merged.ChannelMap,
                             !.lastSync = store.lastSync + 1 ]
  /\ pc' = "returned"
  /\ UNCHANGED <<m3uChannels, results, ri, mtodo, m3uToEPGID, channelPrograms, merged,
                 fetchIn, fi, fetchErr, besideFetch>>

\* m3u.Rewrite: nameToEPGID takes, for each name, the first identifier the
\* range over channelMap yields for it (order is the order of that range); an
\* entry whose name is in it gets that identifier as tvg-id, any other keeps its
\* own.  The result is the playlist text, entry by entry: the attributes of the
\* #EXTINF line and the name after the comma.
Rewrite(chans, channelMap, order) ==
  LET nameToEPGID ==
        [ n \in Range(channelMap) |->
            order[FirstIdx({ k \in DOMAIN order : channelMap[order[k]] = n })] ]
  IN  [ i \in 1..Len(chans) |->
          [ tvgID   |-> IF chans[i].Name \in DOMAIN nameToEPGID
                          THEN nameToEPGID[chans[i].Name]
                          ELSE chans[i].TVGID,
            tvgLogo |-> chans[i].TVGLogo,
            group   |-> chans[i].Group,
            name    |-> chans[i].Name ] ]

\* Routes.handleM3U, once the refresh cycle is over: GetM3U, GetEPG, Rewrite.
HandleM3U ==
  /\ pc = "returned"
  /\ rewritten = NoCall
  /\ IF store.m3uChannels = Nil
     THEN rewritten' = [ status |-> StatusServiceUnavailable, body |-> <<>> ]
     ELSE LET channelMap == IF store.epgData = Nil THEN Nil ELSE store.channelMap
          IN  \E order \in Orders(DOMAIN channelMap) :
                rewritten' = [ status |-> StatusOK,
                               body   |-> Rewrite(Deref(store.m3uChannels), channelMap, order) ]
  /\ UNCHANGED <<pc, m3uChannels, mergeVars, store, fetchIn, fi, fetchErr, matcherVars,
                 normVars, refreshVars, calls, parseVars, hdhrIn, lineupResp, tuneResp>>

NextFetch ==
  \/ FetchM3U
  \/ FetchEPGGetM3U
  \/ FetchSource
  \/ FetchLoopEnd
  \/ MergeNextSource
  \/ MergeEntry
  \/ MergeFlatten
  \/ FetchStore
  \/ HandleM3U

SpecFetch == InitFetch /\ [][NextFetch]_vars

(***************************************************************************)
(* Refresh cycles one after the other, with handleM3U reading the store     *)
(* (fetcher.go, store.go, routes.go)                                        *)
(***************************************************************************)
MaxCycles == 3

\* The goroutines that serve GET requests for the playlist.
M3UReaders == { "h1" }

\* The playlist the n-th cycle parses, and the guide document and the
\* identifier -> name map FetchEPG computes from a playlist.
PlaylistOf(n) == <<"playlist", n>>
GuideFor(m3u) == <<"document", m3u[2]>>
MapFor(m3u)   == <<"map", m3u[2]>>

\* Store.SetM3U, Store.SetEPG and Store.HasData, each under the mutex.
SetM3U(st, chans) ==
  [ st EXCEPT !.m3uChannels = Ref(chans), !.lastSync = st.lastSync + 1 ]

SetEPG(st, data, channelMap) ==
  [ st EXCEPT !.epgData = data, !.channelMap = channelMap, !.lastSync = st.lastSync + 1 ]

HasData(st) == st.m3uChannels # Nil /\ st.epgData # Nil

\* What handleM3U has read: nothing yet.
NoRead == [ channels |-> Nil, cmap |-> Nil, ok |-> FALSE ]

\* A variant that marks the guide unavailable when every source failed.
storeGuideOrClear(st, m3u, anyResult) ==
  IF anyResult THEN SetEPG(st, Ref(GuideFor(m3u)), MapFor(m3u))
  ELSE SetEPG(st, Nil, Nil)

\* The end of FetchEPG: with no result it returns the error and stores
\* nothing, otherwise it stores the guide and the map made from the playlist
\* it read.
storeGuide(st, m3u, anyResult) ==
  IF anyResult THEN SetEPG(st, Ref(GuideFor(m3u)), MapFor(m3u))
  ELSE st

InitCycles ==
  /\ pc = "cycle"
  /\ store = NewStore
  /\ calls = [ h \in M3UReaders |-> [ at |-> "idle", i |-> 0, ret |-> NoRead ] ]
  /\ fetchIn = NoCall
  /\ fi = 0
  /\ fetchErr = NoCall
  /\ EngineIdle
  /\ RefreshIdle
  /\ ParseIdle
  /\ HDHRIdle

besideCycles == <<matcherVars, mergeVars, normVars, refreshVars, fetchIn, parseVars, hdhrVars>>

\* FetchAll begins: FetchM3U fetches and parses the playlist and stores it, or
\* FetchAll returns the error.
CycleFetchM3U ==
  /\ pc = "cycle"
  /\ fi < MaxCycles
  /\ fi' = fi + 1
  /\ \E outcome \in Outcomes :
       IF outcome = "ok"
       THEN /\ store' = SetM3U(store, PlaylistOf(fi + 1))
            /\ fetchErr' = NoCall
            /\ pc' = "cycle epg"
       ELSE /\ fetchErr' = <<"failed to fetch M3U">>
            /\ pc' = "cycle"
            /\ UNCHANGED store
  /\ UNCHANGED <<m3uChannels, calls, besideCycles>>

\* FetchEPG: GetM3U.
CycleGetM3U ==
  /\ pc = "cycle epg"
  /\ IF store.m3uChannels = Nil
     THEN /\ fetchErr' = <<"M3U data not available">>
          /\ pc' = "cycle"
          /\ UNCHANGED m3uChannels
     ELSE /\ m3uChannels' = Deref(store.m3uChannels)
          /\ pc' = "cycle sources"
          /\ UNCHANGED fetchErr
  /\ UNCHANGED <<store, fi, calls, besideCycles>>

\* FetchEPG from its loop on: some source delivers a guide or none does.
CycleFetchEPG ==
  /\ pc = "cycle sources"
  /\ \E anyResult \in BOOLEAN :
       /\ store' = storeGuide(store, m3uChannels, anyResult)
       /\ fetchErr' = IF anyResult THEN NoCall ELSE <<"all EPG sources failed">>
  /\ m3uChannels' = <<>>
  /\ pc' = "cycle"
  /\ UNCHANGED <<fi, calls, besideCycles>>

\* handleM3U: channels, ok := r.store.GetM3U(); without a playlist it answers
\* 503 and returns.
HandleGetM3U(h) ==
  /\ calls[h].at = "idle"
  /\ calls[h].i < MaxCalls
  /\ calls' = [ calls EXCEPT ![h] =
                  IF store.m3uChannels = Nil
                  THEN [ at |-> "idle", i |-> calls[h].i + 1, ret |-> NoRead ]
                  ELSE [ at |-> "get epg", i |-> calls[h].i,
                         ret |-> [ channels |-> store.m3uChannels, cmap |-> Nil,
                                   ok |-> FALSE ] ] ]
  /\ UNCHANGED <<pc, m3uChannels, store, fi, fetchErr, besideCycles>>

\* handleM3U: _, channelMap, _ := r.store.GetEPG(); Rewrite is called with the
\* two results.
HandleGetEPG(h) ==
  /\ calls[h].at = "get epg"
  /\ calls' = [ calls EXCEPT ![h] =
                  [ at |-> "idle", i |-> calls[h].i + 1,
                    ret |-> [ channels |-> calls[h].ret.channels,
                              cmap |-> IF store.epgData = Nil THEN Nil ELSE store.channelMap,
                              ok   |-> store.epgData # Nil ] ] ]
  /\ UNCHANGED <<pc, m3uChannels, store, fi, fetchErr, besideCycles>>

NextCycles ==
  \/ CycleFetchM3U
  \/ CycleGetM3U
  \/ CycleFetchEPG
  \/ \E h \in M3UReaders : HandleGetM3U(h)
  \/ \E h \in M3UReaders : HandleGetEPG(h)

SpecCycles == InitCycles /\ [][NextCycles]_vars

(***************************************************************************)
(* m3u.Parse (internal/m3u/parser.go)                                       *)
(***************************************************************************)
MaxLines == 4

\* bufio.MaxScanTokenSize: the Scanner of Parse has the default buffer.
MaxScanTokenSize == 65536

besideParse == <<engineVars, storeVars, refreshVars, fetchVars, hdhrVars>>

ErrIncompleteChannel == <<"found #EXTINF without URL at end of file">>
ErrOrphanedChannel == <<"found #EXTINF without URL for previous channel">>
ErrScanning == <<"error scanning M3U data: bufio.Scanner: token too long">>

Spaces == { " ", "\t" }

RECURSIVE TrimLeft(_)
TrimLeft(str) ==
  IF str = <<>> THEN <<>>
  ELSE IF Head(str) \in Spaces THEN TrimLeft(Tail(str))
  ELSE str

RECURSIVE TrimRight(_)
TrimRight(str) ==
  IF str = <<>> THEN <<>>
  ELSE IF str[Len(str)] \in Spaces THEN TrimRight(SubSeq(str, 1, Len(str) - 1))
  ELSE str

TrimSpace(str) == TrimRight(TrimLeft(str))

\* The first submatch of attr="([^"]*)" in the line, "" without a match.
extractAttribute(line, attr) ==
  LET open  == attr \o <<"=", "\"">>
      at    == Index(line, open)
      rest  == SubSeq(line, at + Len(open), Len(line))
      close == Index(rest, <<"\"">>)
  IN  IF at = 0 \/ close = 0 THEN <<>> ELSE SubSeq(rest, 1, close - 1)

\* strings.SplitN(line, ",", 2): the trimmed second part, "" when there is
\* no comma.
nameOf(line) ==
  LET comma == Index(line, <<",">>)
  IN  IF comma = 0 THEN <<>> ELSE TrimSpace(SubSeq(line, comma + 1, Len(line)))

\* The Channel an #EXTINF line opens.
extinfChannel(line) ==
  [ Name     |-> nameOf(line),
    URL      |-> <<>>,
    TVGID    |-> extractAttribute(line, <<"t","v","g","-","i","d">>),
    TVGName  |-> extractAttribute(line, <<"t","v","g","-","n","a","m","e">>),
    TVGLogo  |-> extractAttribute(line, <<"t","v","g","-","l","o","g","o">>),
    Group    |-> extractAttribute(line, <<"g","r","o","u","p","-","t","i","t","l","e">>),
    Original |-> line ]

ExtM3U == <<"#","E","X","T","M","3","U">>
ExtInf == <<"#","E","X","T","I","N","F",":">>

\* The lines of the input: the bytes at the beginning of a line, and the number
\* of further bytes before the line ends (none of them a space, a quote or a
\* comma).
Line(text, more) == [ text |-> text, more |-> more ]

LineUniverse ==
  { Line(<<>>, 0),
    Line(<<" ">>, 0),
    Line(ExtM3U, 0),
    Line(<<"#","E","X","T","I","N","F",":","-","1"," ","t","v","g","-","i","d","=","\"","a","\"",",","A">>, 0),
    Line(<<" ","#","E","X","T","I","N","F",":",",","B"," ">>, 0),
    Line(<<"#","E","X","T","I","N","F">>, 0),
    Line(<<"u">>, 0),
    Line(<<" ","v"," ">>, 0),
    Line(<<"w">>, MaxScanTokenSize) }

\* The Scanner cannot deliver a line that does not fit its buffer.
TooLong(line) == Len(line.text) + line.more >= MaxScanTokenSize

InitParse ==
  /\ pc = "parse"
  /\ parseIn \in SeqsUpTo(LineUniverse, MaxLines)
  /\ scanned = 0
  /\ currentChannel = Nil
  /\ channels = <<>>
  /\ parseRet = NoCall
  /\ EngineIdle
  /\ StoreIdle
  /\ RefreshIdle
  /\ FetchIdle
  /\ HDHRIdle

\* What Parse returns: the channels (nil with an error) and the error.
Returns(chs, err) == [ channels |-> chs, err |-> err ]

onExtinfOverwrite(cur, line) ==
  [ cur |-> Ref(extinfChannel(line)), ret |-> NoCall ]

\* The branch of an #EXTINF: line: an error while a channel is pending,
\* otherwise the line opens a channel.
onExtinf(cur, line) ==
  IF cur # Nil
  THEN [ cur |-> cur, ret |-> Returns(Nil, ErrOrphanedChannel) ]
  ELSE [ cur |-> Ref(extinfChannel(line)), ret |-> NoCall ]

\* scanner.Scan() delivers the next line, and the body of the loop runs.
ParseLine ==
  /\ pc = "parse"
  /\ scanned < Len(parseIn)
  /\ ~ TooLong(parseIn[scanned + 1])
  /\ scanned' = scanned + 1
  /\ LET line == TrimSpace(parseIn[scanned + 1].text)
     IN  IF line = <<>> \/ HasPrefix(line, ExtM3U)
         THEN UNCHANGED <<pc, currentChannel, channels, parseRet>>
         ELSE IF HasPrefix(line, ExtInf)
         THEN /\ currentChannel' = onExtinf(currentChannel, line).cur
              /\ parseRet' = onExtinf(currentChannel, line).ret
              /\ pc' = IF parseRet' = NoCall THEN pc ELSE "parsed"
              /\ UNCHANGED channels
         ELSE IF ~ HasPrefix(line, <<"#">>) /\ currentChannel # Nil
         THEN /\ channels' = Append(channels, [ Deref(currentChannel) EXCEPT !.URL = line ])
              /\ currentChannel' = Nil
              /\ UNCHANGED <<pc, parseRet>>
         ELSE UNCHANGED <<pc, currentChannel, channels, parseRet>>
  /\ UNCHANGED <<parseIn, besideParse>>

\* scanner.Scan() returns false, at the end of the input or at a line that is
\* too long, and Parse returns.
ParseEnd ==
  /\ pc = "parse"
  /\ IF scanned = Len(parseIn) THEN TRUE ELSE TooLong(parseIn[scanned + 1])
  /\ parseRet' = IF scanned < Len(parseIn) THEN Returns(Nil, ErrScanning)
                 ELSE IF currentChannel # Nil THEN Returns(Nil, ErrIncompleteChannel)
                 ELSE Returns(Ref(channels), Nil)
  /\ pc' = "parsed"
  /\ UNCHANGED <<parseIn, scanned, currentChannel, channels, besideParse>>

NextParse == ParseLine \/ ParseEnd

SpecParse == InitParse /\ [][NextParse]_vars

(***************************************************************************)
(* hdhr.Handlers: Lineup and AutoTune on one playlist snapshot              *)
(***************************************************************************)
MaxLineup == 3
MaxNumberLen == 2

besideHDHR == <<engineVars, calls, refreshVars, fetchVars, parseVars>>

AutoV == <<"/","a","u","t","o","/","v">>
GroupG == <<"g">>

\* Playlist channels: a name twice, two groups, absolute http URLs (which
\* http.Redirect sends as they are).
LineupUniverse ==
  { [ Name |-> <<"A">>, URL |-> <<"u","1">>, Group |-> GroupG ],
    [ Name |-> <<"A">>, URL |-> <<"u","2">>, Group |-> NoStr ],
    [ Name |-> <<"B">>, URL |-> <<"u","3">>, Group |-> GroupG ] }

\* What a client may send after /auto/v.
NumberChars == { "0", "1", "2", "4", "a", "-" }
Numbers == SeqsUpTo(NumberChars, MaxNumberLen)

\* Store.GetChannelsByGroup: [ok, channels].
GetChannelsByGroup(st, group) ==
  IF st.m3uChannels = Nil THEN [ ok |-> FALSE, channels |-> <<>> ]
  ELSE IF group = NoStr THEN [ ok |-> TRUE, channels |-> Deref(st.m3uChannels) ]
  ELSE [ ok |-> TRUE,
         channels |-> SelectSeq(Deref(st.m3uChannels), LAMBDA ch : ch.Group = group) ]

\* The value of a run of decimal digits.
RECURSIVE Atoi(_)
Atoi(str) ==
  IF str = <<>> THEN 0
  ELSE 10 * Atoi(SubSeq(str, 1, Len(str) - 1))
         + (CHOOSE d \in 0..9 : Digits[d + 1] = str[Len(str)])

\* The longest prefix of digits.
RECURSIVE DigitPrefix(_)
DigitPrefix(str) ==
  IF str = <<>> \/ ~ IsDigit(Head(str)) THEN <<>>
  ELSE <<Head(str)>> \o DigitPrefix(Tail(str))

IsSign(c) == c \in { "+", "-" }

SscanfWhole(str) ==
  LET signed == str # <<>> /\ IsSign(Head(str))
      body   == IF signed THEN Tail(str) ELSE str
  IN  IF body = <<>> \/ DigitPrefix(body) # body THEN [ ok |-> FALSE, value |-> 0 ]
      ELSE [ ok |-> TRUE,
             value |-> IF signed /\ Head(str) = "-" THEN 0 - Atoi(body) ELSE Atoi(body) ]

\* fmt.Sscanf(str, "%d", &n): an optional sign and then digits are read; what
\* follows the digits is left unread, and is no error.
Sscanf(str) ==
  LET signed == str # <<>> /\ IsSign(Head(str))
      body   == IF signed THEN Tail(str) ELSE str
      digits == DigitPrefix(body)
  IN  IF digits = <<>> THEN [ ok |-> FALSE, value |-> 0 ]
      ELSE [ ok |-> TRUE,
             value |-> IF signed /\ Head(str) = "-" THEN 0 - Atoi(digits) ELSE Atoi(digits) ]

NoBody == [ items |-> <<>>, location |-> NoStr ]

Response(status, items, location) ==
  [ status |-> status, items |-> items, location |-> location ]

\* The lineup of Handlers.Lineup: GuideNumber the position, GuideName the
\* name, with " (k)" on the k-th use of a name from the second on.
lineupOf(chans) ==
  [ i \in 1..Len(chans) |->
      LET count == Cardinality({ j \in 1..(i - 1) : chans[j].Name = chans[i].Name })
      IN  [ GuideNumber |-> Itoa(i),
            GuideName   |-> IF count > 0
                            THEN chans[i].Name \o <<" ", "(">> \o Itoa(count + 1) \o <<")">>
                            ELSE chans[i].Name,
            URL         |-> chans[i].URL ] ]

\* A Store with or without a playlist, a handler for all channels or for the
\* group of the path, and the path of a tuning request.
InitHDHR ==
  /\ pc = "serve hdhr"
  /\ \E pl \in { Nil } \cup { Ref(l) : l \in SeqsUpTo(LineupUniverse, MaxLineup) } :
       store = [ NewStore EXCEPT !.m3uChannels = pl ]
  /\ \E group \in { NoStr, GroupG } :
       \E tail \in { AutoV \o num : num \in Numbers } \cup { <<"/","a","u","t","o","/">> } :
         hdhrIn = [ group |-> group,
                    path  |-> IF group = NoStr THEN tail ELSE <<"/">> \o group \o tail ]
  /\ lineupResp = NoCall
  /\ tuneResp = NoCall
  /\ rewritten = NoCall
  /\ calls = NoCall
  /\ EngineIdle
  /\ RefreshIdle
  /\ FetchIdle
  /\ ParseIdle

\* Handlers.Lineup
Lineup ==
  /\ pc = "serve hdhr"
  /\ lineupResp = NoCall
  /\ LET got == GetChannelsByGroup(store, hdhrIn.group)
     IN  lineupResp' =
           IF ~ got.ok \/ Len(got.channels) = 0
           THEN Response(StatusServiceUnavailable, <<>>, NoStr)
           ELSE Response(StatusOK, lineupOf(got.channels), NoStr)
  /\ UNCHANGED <<pc, store, hdhrIn, tuneResp, rewritten, besideHDHR>>

\* Handlers.AutoTune
AutoTune ==
  /\ pc = "serve hdhr"
  /\ tuneResp = NoCall
  /\ LET path       == hdhrIn.path
         autoIdx    == Index(path, AutoV)
         channelNum == SubSeq(path, autoIdx + 7, Len(path))
         got        == GetChannelsByGroup(store, hdhrIn.group)
         scan       == Sscanf(channelNum)
     IN  tuneResp' =
           IF autoIdx = 0 \/ Len(path) <= (autoIdx - 1) + 7
           THEN Response(StatusBadRequest, <<>>, NoStr)
           ELSE IF ~ got.ok \/ Len(got.channels) = 0
           THEN Response(StatusServiceUnavailable, <<>>, NoStr)
           ELSE IF ~ scan.ok
           THEN Response(StatusBadRequest, <<>>, NoStr)
           ELSE IF scan.value < 1 \/ scan.value > Len(got.channels)
           THEN Response(StatusNotFound, <<>>, NoStr)
           ELSE Response(StatusTemporaryRedirect, <<>>, got.channels[scan.value].URL)
  /\ UNCHANGED <<pc, store, hdhrIn, lineupResp, rewritten, besideHDHR>>

NextHDHR == Lineup \/ AutoTune

SpecHDHR == InitHDHR /\ [][NextHDHR]_vars

(***************************************************************************)
(* Properties of the matcher and of Filter                                  *)
(***************************************************************************)
LogIdx == DOMAIN state.log

Returned == pc \in {"matched", "Filter", "FilterForMerge"}

\* The playlist entries the claims C4 and C5 speak of: a non-empty name that
\* no other entry carries, and a non-empty tvg-id.
Hinted(i) ==
  /\ m3uChannels[i].TVGID # NoStr
  /\ m3uChannels[i].Name # NoStr
  /\ \A j \in DOMAIN m3uChannels : j # i => m3uChannels[j].Name # m3uChannels[i].Name

\* The identifier pass is over and has matched no guide channel to the entry.
NotMatchedByTVGID(i) ==
  /\ Hinted(i)
  /\ pc \in {"normalized", "matched", "Filter", "FilterForMerge"}
  /\ \A r \in LogIdx :
       ~ (state.log[r].m3uChannel = m3uChannels[i].Name /\ state.log[r].msg = "tvg-id")

RECURSIVE RefTVGID(_, _)
RefTVGID(s, keys) ==
  IF keys = {} THEN s
  ELSE LET k == CHOOSE x \in keys : TRUE
       IN  RefTVGID(matchByTVGIDIter(s, epgChannels, buildTVGIDMap(m3uChannels), k),
                    keys \ {k})

RECURSIVE RefNormalized(_, _)
RefNormalized(s, keys) ==
  IF keys = {} THEN s
  ELSE LET k == CHOOSE x \in keys : TRUE
       IN  RefNormalized(matchByNormalizedNameIter(s, epgChannels,
                                                   buildNormalizedNameMap(m3uChannels), k),
                         keys \ {k})

RefMatch ==
  RefNormalized(
    matchByDisplayName(RefTVGID(newMatcherState, DOMAIN buildTVGIDMap(m3uChannels)),
                       epgChannels, buildChannelNameMap(m3uChannels), 1),
    DOMAIN buildNormalizedNameMap(m3uChannels))

\* C2 (as claimed): whatever order the maps are ranged over, matchChannels
\* returns the matched channels and the identifier->name map of the
\* fixed-order execution.
C2_Deterministic ==
  pc = "matched" =>
    /\ state.channelIDMap = RefMatch.channelIDMap
    /\ Range(state.matchedChannels) = Range(RefMatch.matchedChannels)

\* C3: in every state of a run each playlist name is matched to at most one
\* guide channel and each guide index to at most one name (the matched sets
\* are exactly what the matches made so far cover), and on return no name
\* occurs twice among the values of the identifier->name map.
C3_OneToOne ==
  /\ \A i, j \in LogIdx :
       i # j => /\ state.log[i].m3uChannel # state.log[j].m3uChannel
                /\ state.log[i].epgIdx # state.log[j].epgIdx
  /\ state.matchedM3U = { state.log[i].m3uChannel : i \in LogIdx }
  /\ state.matchedEPG = { state.log[i].epgIdx : i \in LogIdx }
  /\ Len(state.matchedChannels) = Len(state.log)
  /\ Returned =>
       \A k1, k2 \in DOMAIN state.channelIDMap :
         k1 # k2 => state.channelIDMap[k1] # state.channelIDMap[k2]

\* C3 witness: matchChannels has returned with one of two guide channels of the
\* same display name matched and the other left unmatched.
C3_Witness ==
  /\ pc = "matched"
  /\ \E i, j \in DOMAIN epgChannels :
       /\ epgChannels[i].DisplayName = epgChannels[j].DisplayName
       /\ i \in state.matchedEPG
       /\ j \notin state.matchedEPG
       /\ epgChannels[j].DisplayName \in state.matchedM3U

\* C4 (as claimed): a name matched by the identifier pass is matched once, and
\* on return the map holds exactly one identifier for it, the one finalized
\* from the hinted guide channel.
C4_TVGIDPriority ==
  Returned =>
    \A i \in LogIdx :
      state.log[i].msg = "tvg-id" =>
        /\ \A j \in LogIdx : j # i => state.log[j].m3uChannel # state.log[i].m3uChannel
        /\ { k \in DOMAIN state.channelIDMap :
               state.channelIDMap[k] = state.log[i].m3uChannel }
             = { state.matchedChannels[i].ID }

ClaimedScore(m3uName, epgName) ==
  IF Region(m3uName) # "" /\ Region(epgName) = Region(m3uName) THEN 2
  ELSE IF Region(epgName) = "" THEN 1
  ELSE 0

\* C6: every match the normalized-name pass makes for a playlist name P takes,
\* among the guide channels unmatched at that moment whose normalized display
\* name is P's, one of maximal region score, and the earliest of those.
C6_BestRegionFirst ==
  [][ (pc = "normalized" /\ Len(state'.log) = Len(state.log) + 1) =>
        LET r     == state'.log[Len(state'.log)]
            cands == { j \in DOMAIN epgChannels :
                         /\ j \notin state.matchedEPG
                         /\ Normalized(epgChannels[j].DisplayName) = Normalized(r.m3uChannel) }
            sc(j) == ClaimedScore(r.m3uChannel, epgChannels[j].DisplayName)
        IN  /\ r.msg = "normalized-name"
            /\ r.epgIdx \in cands
            /\ \A j \in cands :
                 \/ sc(j) < sc(r.epgIdx)
                 \/ (sc(j) = sc(r.epgIdx) /\ r.epgIdx <= j)
    ]_vars

\* C6 witness: a playlist name of region us was matched by the normalized-name
\* pass to the us candidate although a uk candidate of the same normalized
\* name comes earlier in the guide and stays unmatched.
C6_Witness ==
  \E r \in LogIdx :
    /\ state.log[r].msg = "normalized-name"
    /\ Region(state.log[r].m3uChannel) = "us"
    /\ Region(epgChannels[state.log[r].epgIdx].DisplayName) = "us"
    /\ \E j \in DOMAIN epgChannels :
         /\ j < state.log[r].epgIdx
         /\ j \notin state.matchedEPG
         /\ Region(epgChannels[j].DisplayName) = "uk"
         /\ Normalized(epgChannels[j].DisplayName) = Normalized(state.log[r].m3uChannel)

\* The channels Filter appends after the matched ones.
FakeChannels ==
  SubSeq(result.Channels, Len(state.matchedChannels) + 1, Len(result.Channels))

Placeholders(id) ==
  { p \in DOMAIN result.Programs :
      result.Programs[p].Channel = id /\ result.Programs[p].Description = NoInfo }

RealPrograms(id) ==
  { p \in DOMAIN result.Programs :
      result.Programs[p].Channel = id /\ result.Programs[p].Description # NoInfo }

\* C10 (as claimed): in Filter's output a channel identifier with no real
\* programme owns exactly one placeholder (titled with the mapped playlist
\* name, with that name's group as category), and an identifier with a real
\* programme owns none.
C10_OnePlaceholder ==
  pc = "Filter" =>
    \A c \in DOMAIN result.Channels :
      LET id == result.Channels[c].ID
      IN  IF RealPrograms(id) = {}
            THEN /\ Cardinality(Placeholders(id)) = 1
                 /\ \A p \in Placeholders(id) :
                      /\ result.Programs[p].Title = result.ChannelMap[id]
                      /\ result.ChannelMap[id] \in DOMAIN buildCategoryMap(m3uChannels)
                           => result.Programs[p].Category
                                = buildCategoryMap(m3uChannels)[result.ChannelMap[id]]
            ELSE Placeholders(id) = {}

(***************************************************************************)
(* Properties of the merge                                                  *)
(***************************************************************************)
MergeReturned == pc \in {"merged", "stored"}

\* The playlist names some source's map contains.
MergedNames == UNION { Range(results[s].ChannelMap) : s \in DOMAIN results }

\* The highest-priority source whose map contains the name, and the identifier
\* a source has for a name.
FirstSource(name) == FirstIdx({ s \in DOMAIN results : name \in Range(results[s].ChannelMap) })

IDIn(s, name) ==
  CHOOSE id \in DOMAIN results[s].ChannelMap : results[s].ChannelMap[id] = name

Remapped(s, j) ==
  [results[s].Programs[j] EXCEPT
     !.Channel = m3uToEPGID[results[s].ChannelMap[results[s].Programs[j].Channel]]]

\* The programmes of all sources that remap to one primary identifier and start.
Candidates(primaryID, start) ==
  { c \in UNION { {s} \X DOMAIN results[s].Programs : s \in DOMAIN results } :
      /\ Remapped(c[1], c[2]).Channel = primaryID
      /\ Remapped(c[1], c[2]).Start = start }

\* The part of C7 that the claim and its amendment share: the primary
\* identifier of a name is, in every state, the identifier the highest-priority
\* source has for it, and the merged list has exactly one channel for the name,
\* with that identifier and that source's icon.
C7_Ownership ==
  /\ \A name \in DOMAIN m3uToEPGID :
       /\ name \in MergedNames
       /\ m3uToEPGID[name] = IDIn(FirstSource(name), name)
  /\ MergeReturned =>
       \A name \in MergedNames :
         /\ name \in DOMAIN m3uToEPGID
         /\ Cardinality({ k \in DOMAIN merged.Channels :
                            merged.Channels[k].DisplayName = name }) = 1
         /\ \A k \in DOMAIN merged.Channels :
              merged.Channels[k].DisplayName = name
                => merged.Channels[k] = [ ID          |-> m3uToEPGID[name],
                                          DisplayName |-> name,
                                          Icon        |-> Itoa(FirstSource(name)) ]

\* The programmes of a later source that has the name under another identifier.
LaterPrograms(name) ==
  { c \in UNION { {s} \X DOMAIN results[s].Programs : s \in DOMAIN results } :
      /\ c[1] > FirstSource(name)
      /\ name \in Range(results[c[1]].ChannelMap)
      /\ IDIn(c[1], name) # m3uToEPGID[name]
      /\ results[c[1]].Programs[c[2]].Channel = IDIn(c[1], name) }

\* C7 (as claimed): each name is owned by its highest-priority source, one
\* channel with that source's metadata is emitted for it, and every programme
\* a later source has for the name under another identifier is in the output,
\* remapped to the primary identifier.
C7_PriorityOwnership ==
  /\ C7_Ownership
  /\ MergeReturned =>
       \A name \in MergedNames :
         \A c \in LaterPrograms(name) :
           \E k \in DOMAIN merged.Programs : merged.Programs[k] = Remapped(c[1], c[2])

\* C7 (amended): as claimed, but of a later source's programme only this much:
\* the output has a programme of its start under the primary identifier, and it
\* is the programme itself, remapped, when no other programme of any source
\* remaps to that identifier and start.
C7_PriorityOwnershipDedup ==
  /\ C7_Ownership
  /\ MergeReturned =>
       \A name \in MergedNames :
         \A c \in LaterPrograms(name) :
           /\ \E k \in DOMAIN merged.Programs :
                /\ merged.Programs[k].Channel = m3uToEPGID[name]
                /\ merged.Programs[k].Start = Remapped(c[1], c[2]).Start
           /\ Candidates(m3uToEPGID[name], Remapped(c[1], c[2]).Start) = {c}
                => \E k \in DOMAIN merged.Programs :
                     merged.Programs[k] = Remapped(c[1], c[2])

\* C7 witness: MergeEPGs has returned; a later source has a name of the first
\* source under another identifier, one of its programmes for the name is in
\* the output under the primary identifier, and no second channel was added.
C7_Witness ==
  /\ pc = "merged"
  /\ \E name \in MergedNames :
       /\ FirstSource(name) = 1
       /\ \E c \in LaterPrograms(name) :
            /\ \E k \in DOMAIN merged.Programs : merged.Programs[k] = Remapped(c[1], c[2])
            /\ Remapped(c[1], c[2]).Channel # results[c[1]].Programs[c[2]].Channel
       /\ Len(merged.Channels) = 1

\* C8 (as claimed): in the result of MergeEPGs no two programmes of one channel
\* identifier have the same start, and the programme kept for an identifier and
\* start is the first of its candidates in processing order: sources in
\* priority order, a source's programmes in list order.
C8_FirstSeenWins ==
  MergeReturned =>
    /\ \A a, b \in DOMAIN merged.Programs :
         a # b => ~ ( /\ merged.Programs[a].Channel = merged.Programs[b].Channel
                      /\ merged.Programs[a].Start = merged.Programs[b].Start )
    /\ \A k \in DOMAIN merged.Programs :
         LET cands == Candidates(merged.Programs[k].Channel, merged.Programs[k].Start)
             first == CHOOSE c \in cands :
                        \A d \in cands : c[1] < d[1] \/ (c[1] = d[1] /\ c[2] <= d[2])
         IN  /\ cands # {}
             /\ merged.Programs[k] = Remapped(first[1], first[2])

(***************************************************************************)
(* Further properties of the matcher and of Filter                          *)
(***************************************************************************)
\* C11 (as claimed): every real programme in the output of Filter and of
\* FilterForMerge is a guide programme whose channel reference is the original
\* identifier of a matched guide channel, under that channel's finalized
\* identifier; a guide programme of an unmatched or absent channel gives none.
C11_ProgramsOfMatchedOnly ==
  pc \in {"Filter", "FilterForMerge"} =>
    \A p \in DOMAIN result.Programs :
      result.Programs[p].Description # NoInfo =>
        \E q \in DOMAIN epgPrograms, r \in LogIdx :
          /\ epgPrograms[q].Channel = state.log[r].epgID
          /\ result.Programs[p].Channel = state.matchedChannels[r].ID
          /\ result.Programs[p].Start = epgPrograms[q].Start
          /\ result.Programs[p].Title = epgPrograms[q].Title

PlaylistNames == { m3uChannels[i].Name : i \in DOMAIN m3uChannels }

OriginalID(r) ==
  IF epgChannels[state.log[r].epgIdx].ID = NoStr
    THEN generateChannelID(epgChannels[state.log[r].epgIdx].DisplayName)
    ELSE epgChannels[state.log[r].epgIdx].ID

\* How many of the first r matches have the original identifier of the r-th.
UseNumber(r) == Cardinality({ q \in 1..r : OriginalID(q) = OriginalID(r) })

\* C13: among the matched guide channels of one original identifier X the first
\* matched keeps X and the k-th matched (k >= 2) is finalized as X-k; the usage
\* counter is keyed by the original identifier and counts its uses.
C13_SuffixByUse ==
  /\ \A r \in LogIdx :
       /\ state.matchedChannels[r].ID
            = IF UseNumber(r) = 1 THEN OriginalID(r)
              ELSE OriginalID(r) \o <<"-">> \o Itoa(UseNumber(r))
       /\ OriginalID(r) \in DOMAIN state.idUsageCount
  /\ \A id \in DOMAIN state.idUsageCount :
       state.idUsageCount[id] = Cardinality({ r \in LogIdx : OriginalID(r) = id })

\* C13 witness: two guide channels of one identifier are matched to two
\* playlist names, and the second carries the identifier with -2 appended.
C13_Witness ==
  /\ pc = "matched"
  /\ \E r1, r2 \in LogIdx :
       /\ r1 < r2
       /\ epgChannels[state.log[r1].epgIdx].ID = epgChannels[state.log[r2].epgIdx].ID
       /\ epgChannels[state.log[r1].epgIdx].ID # NoStr
       /\ state.log[r1].m3uChannel # state.log[r2].m3uChannel
       /\ state.matchedChannels[r1].ID = OriginalID(r1)
       /\ state.matchedChannels[r2].ID = OriginalID(r2) \o <<"-", "2">>

\* C14 (as claimed): for a bare name n, every table prefix p and every sequence
\* s of table suffixes, normalizeChannelName(p + n + s) is
\* normalizeChannelName(n).
C14_DecorationInvariant ==
  pc = "normalized name" =>
    /\ normOut.decorated = normOut.bare
    /\ normIn.n = <<"E","S","P","N">> => normOut.decorated = <<"e","s","p","n">>
(***************************************************************************)
(* Properties of the Store                                                  *)
(***************************************************************************)
\* GetEPG has handed its results calls[r].ret to the caller r.
Got(r) == calls[r].at = "returning" \/ (calls[r].at = "idle" /\ calls[r].i > 0)

\* C15: under any interleaving of SetEPG and GetEPG calls, a GetEPG that
\* reports data returns the document and the map of one single SetEPG call
\* that has written both, and a GetEPG reports no data only while no SetEPG
\* has completed.
C15_WrittenTogether ==
  pc = "store" =>
    \A r \in Readers :
      Got(r) =>
        IF calls[r].ret.ok
        THEN \E w \in Writers : \E i \in 1..MaxCalls :
               /\ calls[r].ret.data = DataOf(w, i)
               /\ calls[r].ret.cmap = MapOf(w, i)
               /\ i <= calls[w].i
        ELSE /\ calls[r].ret = NoData
             /\ calls[r].at = "returning" => \A w \in Writers : calls[w].i = 0

\* A GetEPG returned the pair of one writer after both writers had completed
\* calls and while a further SetEPG is waiting to write.
C15_Witness ==
  /\ pc = "store"
  /\ \E r \in Readers :
       /\ calls[r].at = "returning"
       /\ calls[r].ret.ok
       /\ calls[r].ret.data = DataOf("w2", 1)
  /\ calls["w1"].i = 1
  /\ calls["w2"].i = 1

(***************************************************************************)
(* Properties of the refresh cycle                                          *)
(***************************************************************************)
\* C16: in every state reachable through Start and Stop calls, timer ticks
\* and fetch completions, at most one FetchAll is in progress.
C16_Serialized == pc \in { "serve", "panic" } => FetchAllInProgress <= 1

(***************************************************************************)
(* Properties of FetchEPG                                                   *)
(***************************************************************************)
\* The configured positions of the sources that were fetched and parsed.
OkSources == { i \in DOMAIN fetchIn.sources : fetchIn.sources[i].outcome = "ok" }

\* The playlist names that some such source has.
OkNames == UNION { Range(fetchIn.sources[i].result.ChannelMap) : i \in OkSources }

\* The first of them, in configured order, that has the name.
FirstOk(name) ==
  FirstIdx({ i \in OkSources : name \in Range(fetchIn.sources[i].result.ChannelMap) })

FetchEPGReturned == pc = "returned" /\ fetchIn.m3u.outcome = "ok"

\* C17: in a refresh cycle a source whose fetch or parse fails is skipped;
\* FetchEPG returns an error only when every source failed, and otherwise it
\* stores the merged guide of the sources that succeeded, taken in their
\* configured order: each name belongs to the first of them that has it.
C17_FailedSourcesSkipped ==
  FetchEPGReturned =>
    /\ fetchErr # NoCall => OkSources = {} /\ store.epgData = Nil
    /\ fetchErr = NoCall =>
         /\ OkSources # {}
         /\ store.epgData = Ref(finalEPG)
         /\ store.channelMap = merged.ChannelMap
         /\ Len(results) = Cardinality(OkSources)
         /\ \A name \in OkNames :
              LET own == fetchIn.sources[FirstOk(name)].result.ChannelMap
                  id  == CHOOSE k \in DOMAIN own : own[k] = name
              IN  \E k \in DOMAIN Deref(store.epgData).Channels :
                    Deref(store.epgData).Channels[k] = [ ID          |-> id,
                                                         DisplayName |-> name,
                                                         Icon        |-> Itoa(FirstOk(name)) ]
         /\ \A k \in DOMAIN merged.Channels :
              \E i \in OkSources : merged.Channels[k].Icon = Itoa(i)

\* Three sources: the first fails, the two others have the same name under
\* different identifiers, and the cycle has stored a guide.
C17_Witness ==
  /\ FetchEPGReturned
  /\ fetchErr = NoCall
  /\ Len(fetchIn.sources) = 3
  /\ fetchIn.sources[1].outcome = "parse failed"
  /\ OkSources = { 2, 3 }
  /\ \E name \in OkNames :
       /\ name \in Range(fetchIn.sources[2].result.ChannelMap)
       /\ name \in Range(fetchIn.sources[3].result.ChannelMap)
       /\ store.channelMap \notin { fetchIn.sources[3].result.ChannelMap }

(***************************************************************************)
(* Properties of m3u.Parse                                                  *)
(***************************************************************************)
\* The lines of the input as the loop sees them.
Trimmed(i) == TrimSpace(parseIn[i].text)

IsExtinfLine(i) == HasPrefix(Trimmed(i), ExtInf)

\* A URL line: not empty and not starting with '#'.
IsURLLine(i) == Trimmed(i) # <<>> /\ ~ HasPrefix(Trimmed(i), <<"#">>)

\* The first URL line after line i, 0 when there is none.
URLAfter(i) ==
  LET urls == { j \in (i + 1)..Len(parseIn) : IsURLLine(j) }
  IN  IF urls = {} THEN 0 ELSE FirstIdx(urls)

\* The #EXTINF line i is followed by a URL line before the next #EXTINF line
\* and before line number end.
Answered(i, end) ==
  /\ URLAfter(i) # 0
  /\ URLAfter(i) < end
  /\ \A k \in (i + 1)..(URLAfter(i) - 1) : ~ IsExtinfLine(k)

\* An #EXTINF line before line number end arrives while an earlier one is
\* pending.
Orphaned(end) ==
  \E i, k \in 1..(end - 1) :
    /\ i < k
    /\ IsExtinfLine(i)
    /\ IsExtinfLine(k)
    /\ \A j \in (i + 1)..(k - 1) : ~ IsURLLine(j)

WellFormed == \A i \in DOMAIN parseIn : IsExtinfLine(i) => Answered(i, Len(parseIn) + 1)

\* One channel per #EXTINF/URL pair, in input order.
RECURSIVE PairsFrom(_)
PairsFrom(i) ==
  IF i > Len(parseIn) THEN <<>>
  ELSE IF IsExtinfLine(i) /\ URLAfter(i) # 0
    THEN <<[ extinfChannel(Trimmed(i)) EXCEPT !.URL = Trimmed(URLAfter(i)) ]>>
           \o PairsFrom(URLAfter(i) + 1)
  ELSE PairsFrom(i + 1)

\* The first line the Scanner cannot deliver, Len + 1 when it delivers all.
FirstTooLong ==
  LET long == { i \in DOMAIN parseIn : TooLong(parseIn[i]) }
  IN  IF long = {} THEN Len(parseIn) + 1 ELSE FirstIdx(long)

\* C18 (as claimed): Parse accepts a playlist exactly when every #EXTINF line
\* is followed by a URL line before the next #EXTINF line or the end of the
\* input; it returns ErrOrphanedChannel when a further #EXTINF arrives while
\* one is pending, ErrIncompleteChannel when the input ends while one is
\* pending, otherwise one channel per pair in input order; with an error it
\* returns no channels.
C18_AcceptsExactly ==
  pc = "parsed" =>
    /\ parseRet.err = Nil <=> WellFormed
    /\ Orphaned(Len(parseIn) + 1) => parseRet.err = ErrOrphanedChannel
    /\ ~ WellFormed /\ ~ Orphaned(Len(parseIn) + 1) => parseRet.err = ErrIncompleteChannel
    /\ WellFormed => parseRet.channels = Ref(PairsFrom(1))
    /\ parseRet.err # Nil => parseRet.channels = Nil

\* C18 (amended): as claimed for an input all of whose lines fit the buffer of
\* the Scanner; a line that does not fit ends the scan, and Parse then returns
\* ErrOrphanedChannel when an #EXTINF arrived before that line while one was
\* pending, and otherwise a scanning error; with an error it returns no
\* channels.
C18_AcceptsExactlyScanned ==
  pc = "parsed" =>
    /\ parseRet.err = Nil <=> (WellFormed /\ FirstTooLong > Len(parseIn))
    /\ Orphaned(FirstTooLong) => parseRet.err = ErrOrphanedChannel
    /\ ~ Orphaned(FirstTooLong) /\ FirstTooLong <= Len(parseIn) => parseRet.err = ErrScanning
    /\ ~ WellFormed /\ ~ Orphaned(FirstTooLong) /\ FirstTooLong > Len(parseIn)
         => parseRet.err = ErrIncompleteChannel
    /\ parseRet.err = Nil => parseRet.channels = Ref(PairsFrom(1))
    /\ parseRet.err # Nil => parseRet.channels = Nil

\* Two pairs with blank lines between them were accepted.
C18_Witness ==
  /\ pc = "parsed"
  /\ parseRet.err = Nil
  /\ Len(Deref(parseRet.channels)) = 2
  /\ Deref(parseRet.channels)[1].Name = <<"A">>
  /\ Deref(parseRet.channels)[2].Name = <<"B">>

(***************************************************************************)
(* Properties of Lineup and AutoTune                                        *)
(***************************************************************************)
\* The channel list of the handler, and what the request has after /auto/v.
HandlerList == GetChannelsByGroup(store, hdhrIn.group)

RequestedNumber ==
  IF Index(hdhrIn.path, AutoV) = 0 THEN NoStr
  ELSE SubSeq(hdhrIn.path, Index(hdhrIn.path, AutoV) + 7, Len(hdhrIn.path))

\* The number is an integer in decimal notation, and its value.
IsNumeric(str) == SscanfWhole(str).ok

\* C19: Lineup and AutoTune agree on the numbering of one snapshot: for the
\* handler's list of length n, Lineup lists item i with GuideNumber i and the
\* i-th URL, and AutoTune on /auto/v{i} redirects (307) to that URL; a number
\* outside 1..n yields 404, a non-numeric or missing number 400, an absent
\* or empty list 503.
C19_SameNumbering ==
  pc = "serve hdhr" =>
    LET n   == Len(HandlerList.channels)
        num == RequestedNumber
    IN  /\ lineupResp # NoCall =>
             IF n = 0 THEN lineupResp.status = StatusServiceUnavailable
             ELSE /\ lineupResp.status = StatusOK
                  /\ Len(lineupResp.items) = n
                  /\ \A i \in 1..n :
                       /\ lineupResp.items[i].GuideNumber = Itoa(i)
                       /\ lineupResp.items[i].URL = HandlerList.channels[i].URL
        /\ tuneResp # NoCall =>
             IF num = NoStr THEN tuneResp.status = StatusBadRequest
             ELSE IF n = 0 THEN tuneResp.status = StatusServiceUnavailable
             ELSE IF ~ IsNumeric(num) THEN tuneResp.status = StatusBadRequest
             ELSE IF SscanfWhole(num).value \notin 1..n THEN tuneResp.status = StatusNotFound
             ELSE /\ tuneResp.status = StatusTemporaryRedirect
                  /\ tuneResp.location = HandlerList.channels[SscanfWhole(num).value].URL
                  /\ lineupResp # NoCall =>
                       \E i \in 1..n :
                         /\ Sscanf(lineupResp.items[i].GuideNumber).value = SscanfWhole(num).value
                         /\ lineupResp.items[i].URL = tuneResp.location

(***************************************************************************)
(* Properties of the identifier pass                                        *)
(***************************************************************************)
\* The identifier pass is over.
TVGIDPassOver == pc # "tvgid" \/ todo = {}

\* The matches of the identifier pass, and the guide channels of an identifier
\* that were unmatched before the match number r.
TVGIDMatches == { r \in LogIdx : state.log[r].msg = "tvg-id" }

FreeBefore(id, r) ==
  { g \in DOMAIN epgChannels :
      /\ epgChannels[g].ID = id
      /\ \A q \in 1..(r - 1) : state.log[q].epgIdx # g }

\* C20: in the identifier pass every playlist entry with a tvg-id and a name
\* is considered, also when several entries carry the same tvg-id: when an
\* unmatched guide channel of that identifier exists as the entry is
\* processed, the entry is matched, to the unmatched candidate of exactly its
\* name if there is one, otherwise to the first unmatched candidate.
C20_EveryHintedEntry ==
  /\ \A r \in TVGIDMatches :
       LET free    == FreeBefore(state.log[r].epgID, r)
           perfect == { g \in free : epgChannels[g].DisplayName = state.log[r].m3uChannel }
       IN  /\ \E i \in DOMAIN m3uChannels :
                /\ m3uChannels[i].Name = state.log[r].m3uChannel
                /\ m3uChannels[i].TVGID = state.log[r].epgID
           /\ state.log[r].epgIdx = IF perfect # {} THEN FirstIdx(perfect) ELSE FirstIdx(free)
  /\ TVGIDPassOver =>
       \A i \in DOMAIN m3uChannels :
         ( /\ m3uChannels[i].TVGID # NoStr
           /\ m3uChannels[i].Name # NoStr
           /\ FreeBefore(m3uChannels[i].TVGID, Len(state.log) + 1) # {} )
           => m3uChannels[i].Name \in state.matchedM3U

(***************************************************************************)
(* Properties of the merged channel list and map                            *)
(***************************************************************************)
\* C22 (as claimed): in the result of MergeEPGs the identifiers of the merged
\* channel list are pairwise distinct, and the merged identifier->name map has
\* exactly one entry for every playlist name some source claimed.
C22_DistinctMergedIDs ==
  MergeReturned =>
    /\ \A a, b \in DOMAIN merged.Channels :
         a # b => merged.Channels[a].ID # merged.Channels[b].ID
    /\ \A name \in MergedNames :
         Cardinality({ id \in DOMAIN merged.ChannelMap :
                         merged.ChannelMap[id] = name }) = 1

\* C27 (as claimed): every channel MergeEPGs returns has as its display name
\* the playlist name the merged map gives for the channel's identifier.
C27_DisplayNameIsPlaylistName ==
  MergeReturned =>
    \A k \in DOMAIN merged.Channels :
      /\ merged.Channels[k].ID \in DOMAIN merged.ChannelMap
      /\ merged.Channels[k].DisplayName = merged.ChannelMap[merged.Channels[k].ID]

(***************************************************************************)
(* Properties of the programme loop of Filter                               *)
(***************************************************************************)
\* The matches whose guide channel has the original identifier id.
MatchesOf(id) == { r \in LogIdx : OriginalID(r) = id }

\* The copies of the guide programme q in Filter's output under channelID.
CopiesUnder(q, channelID) ==
  { p \in DOMAIN result.Programs :
      /\ result.Programs[p].Description # NoInfo
      /\ result.Programs[p].Channel = channelID
      /\ result.Programs[p].Start = epgPrograms[q].Start
      /\ result.Programs[p].Title = epgPrograms[q].Title }

\* The category a programme carries for the playlist name: the group-title of
\* the playlist entry, or its own where the entry has none.
CategoryFor(m3uName, program) ==
  IF m3uName \in DOMAIN buildCategoryMap(m3uChannels)
    THEN buildCategoryMap(m3uChannels)[m3uName]
    ELSE program.Category

\* C24 (as claimed): when two or more matched guide channels have one original
\* identifier X, every guide programme whose channel reference is X is in
\* Filter's output exactly once under the finalized identifier of each of them,
\* and that copy carries the category of the playlist entry matched to it.
C24_CopyPerFinalID ==
  pc = "Filter" =>
    \A q \in DOMAIN epgPrograms :
      LET rs == MatchesOf(epgPrograms[q].Channel)
      IN  Cardinality(rs) >= 2 =>
            \A r \in rs :
              LET copies == CopiesUnder(q, state.matchedChannels[r].ID)
              IN  /\ Cardinality(copies) = 1
                  /\ \A p \in copies :
                       result.Programs[p].Category
                         = CategoryFor(state.log[r].m3uChannel, epgPrograms[q])

\* C24 witness: Filter has returned; two matched guide channels share the
\* identifier of a guide programme, matched to playlist names of which one has
\* a group, and the programme is in the output under both finalized
\* identifiers.
C24_Witness ==
  /\ pc = "Filter"
  /\ \E q \in DOMAIN epgPrograms :
       \E r1, r2 \in MatchesOf(epgPrograms[q].Channel) :
         /\ r1 # r2
         /\ state.matchedChannels[r1].ID # state.matchedChannels[r2].ID
         /\ CopiesUnder(q, state.matchedChannels[r1].ID) # {}
         /\ CopiesUnder(q, state.matchedChannels[r2].ID) # {}
         /\ state.log[r1].m3uChannel \in DOMAIN buildCategoryMap(m3uChannels)
         /\ state.log[r2].m3uChannel \notin DOMAIN buildCategoryMap(m3uChannels)

(***************************************************************************)
(* Properties of the exact display-name pass                                *)
(***************************************************************************)
\* The matches of the display-name pass.
DisplayNameMatches == { r \in LogIdx : state.log[r].msg = "display-name" }

\* The guide channels the pass left aside: a channel of the same display name,
\* earlier in the guide list, was matched by the pass, and no pass matched
\* this one.
LeftAside ==
  { j \in DOMAIN epgChannels :
      /\ j \notin state.matchedEPG
      /\ \E r \in DisplayNameMatches :
           /\ state.log[r].m3uChannel = epgChannels[j].DisplayName
           /\ state.log[r].epgIdx < j }

\* C25 (as claimed): of the unmatched guide channels whose display name is one
\* unmatched playlist name the display-name pass matches the first in list
\* order and no other; a channel left aside that no later pass matches is not
\* in the output, and no guide programme that refers to its identifier is.
C25_FirstOfName ==
  /\ \A r \in DisplayNameMatches :
       /\ state.log[r].m3uChannel = epgChannels[state.log[r].epgIdx].DisplayName
       /\ \A j \in 1..(state.log[r].epgIdx - 1) :
            epgChannels[j].DisplayName = state.log[r].m3uChannel
              => \E q \in 1..(r - 1) : state.log[q].epgIdx = j
       /\ \A q \in DisplayNameMatches :
            q # r => state.log[q].m3uChannel # state.log[r].m3uChannel
  /\ pc \in {"Filter", "FilterForMerge"} =>
       \A j \in LeftAside :
         /\ \A c \in 1..Len(state.matchedChannels) : state.log[c].epgIdx # j
         /\ Len(result.Channels) >= Len(state.matchedChannels)
         /\ \A c \in (Len(state.matchedChannels) + 1)..Len(result.Channels) :
              result.Channels[c].DisplayName # epgChannels[j].DisplayName
         /\ MatchesOf(epgChannels[j].ID) = {} =>
              \A q \in DOMAIN epgPrograms :
                epgPrograms[q].Channel = epgChannels[j].ID =>
                  \A p \in DOMAIN result.Programs :
                    result.Programs[p].Description # NoInfo =>
                      ~ ( /\ result.Programs[p].Start = epgPrograms[q].Start
                          /\ result.Programs[p].Title = epgPrograms[q].Title )

(***************************************************************************)
(* Properties of the prefix loop of normalizeChannelName                    *)
(***************************************************************************)
\* C26 (as claimed): normalizeChannelName removes at most one prefix: the
\* result is what the rest of the function makes of the name without the first
\* prefix of the ordered list that it starts with.
C26_AtMostOnePrefix ==
  pc = "prefixes stripped" =>
    normOut.normalized = normalizeRest(AfterFirstPrefix(normOut.name))

(***************************************************************************)
(* Properties of the stored map and the rewritten playlist                  *)
(***************************************************************************)
\* FetchEPG has stored a guide and returned nil.
FetchEPGStored == pc = "returned" /\ fetchErr = NoCall

\* The identifiers of the channels of the stored guide.
ServedIDs ==
  { Deref(store.epgData).Channels[c].ID : c \in DOMAIN Deref(store.epgData).Channels }

\* C21 (as claimed): after a successful FetchEPG the stored identifier->name
\* map has an entry for every channel of the stored guide, the synthesized ones
\* included, and the playlist handleM3U rewrites from the stored playlist and
\* map gives every entry of a non-empty name a tvg-id that is the identifier
\* of a channel of the stored guide.
C21_MapCoversGuide ==
  FetchEPGStored =>
    /\ ServedIDs \subseteq DOMAIN store.channelMap
    /\ rewritten # NoCall =>
         /\ rewritten.status = StatusOK
         /\ \A i \in DOMAIN rewritten.body :
              rewritten.body[i].name # NoStr => rewritten.body[i].tvgID \in ServedIDs

(***************************************************************************)
(* Properties of Start and Stop                                             *)
(***************************************************************************)
\* The loop goroutines of the Refresher, and those that have not returned.
Loops == { g \in DOMAIN runs : runs[g].kind = "refresher" }

LiveLoops == { g \in Loops : runs[g].at # "exited" }

\* C28 (as claimed): the loop goroutine closes the done channel made by the
\* Start that spawned it, the one a Stop of that Start waits on; a Stop that
\* waits has a loop that will close its channel; and a loop that has not
\* exited belongs to the Start in force or to a Stop that has not returned, so
\* that no refresh begins after Stop has returned.
C28_StopWaitsForLoop ==
  /\ \A g \in Loops : runs[g].at # "spawned" => runs[g].done = runs[g].ctx
  /\ \A c \in DOMAIN callers :
       ( /\ callers[c].at = "refresher wait done"
         /\ callers[c].done # NoContext
         /\ ~ contexts[callers[c].done].closed )
         => \E g \in LiveLoops : runs[g].ctx = callers[c].cancel
  /\ \A g \in LiveLoops :
       \/ refresher.cancel = runs[g].ctx
       \/ \E c \in DOMAIN callers :
            /\ callers[c].at \in { "refresher cancel", "refresher wait done" }
            /\ callers[c].cancel = runs[g].ctx

\* C29 (as claimed): a server whose Start has returned has its cancel function
\* set only when its run goroutine was started, so that a Start after a failed
\* Start is not rejected; and a Stop that waits on the done channel has a run
\* goroutine that will close it, so that Stop returns.
C29_StopTerminates ==
  /\ ( server.mu = Free /\ server.cancel # NoContext )
       => \E g \in DOMAIN runs : runs[g].kind = "server" /\ runs[g].ctx = server.cancel
  /\ \A c \in DOMAIN callers :
       ( /\ callers[c].at = "wait done"
         /\ callers[c].done # NoContext
         /\ ~ contexts[callers[c].done].closed )
         => \E g \in DOMAIN runs :
              /\ runs[g].kind = "server"
              /\ runs[g].at = "running"
              /\ runs[g].done = callers[c].done

(***************************************************************************)
(* Properties of the store over several refresh cycles                      *)
(***************************************************************************)
\* C23 (as claimed): whenever the store holds a playlist and a guide, the
\* stored map is the one computed from the stored playlist, and the playlist
\* and the map handleM3U hands to Rewrite belong together.
C23_MapOfStoredPlaylist ==
  /\ HasData(store) => store.channelMap = MapFor(Deref(store.m3uChannels))
  /\ \A h \in DOMAIN calls :
       ( calls[h].at = "idle" /\ calls[h].ret.ok )
         => calls[h].ret.cmap = MapFor(Deref(calls[h].ret.channels))

\* C30: the stored guide and map change only in the last step of a cycle that
\* succeeds, so a cycle that returns an error leaves them as they were; and
\* no step makes HasData false again.
C30_FailedCycleKeepsGuide ==
  [][ /\ ( store.epgData' # store.epgData \/ store.channelMap' # store.channelMap )
           => ( pc = "cycle sources" /\ pc' = "cycle" /\ fetchErr' = NoCall )
      /\ HasData(store) => HasData(store') ]_vars

\* C30 witness: after a cycle that stored a guide, a later cycle stored its
\* playlist and then failed on every guide source; the store still has the
\* guide and the map of the earlier cycle.
C30_Witness ==
  /\ pc = "cycle"
  /\ fetchErr = <<"all EPG sources failed">>
  /\ HasData(store)
  /\ Deref(store.m3uChannels) = PlaylistOf(fi)
  /\ \E k \in 1..(fi - 1) :
       /\ Deref(store.epgData) = GuideFor(PlaylistOf(k))
       /\ store.channelMap = MapFor(PlaylistOf(k))

=============================================================================
